---- MODULE Spec2Model ----
(***************************************************************************)
(* Matching-and-caching subsystem of ApplyBot.                             *)
(*                                                                         *)
(* Spec     : MatchingCacheService (app/services/matching/cache_service.py)*)
(*            as a state machine over the Redis store, the in-process      *)
(*            memory_cache and a clock.                                    *)
(* SpecKey  : generate_cache_key applied to pairs of bounded inputs.       *)
(*                                                                         *)
(* Python str values that take part in key composition, prefix tests or    *)
(* glob matching are sequences of one-character strings.  Optional[T] is   *)
(* a sequence of length 0 (None) or 1.                                     *)
(***************************************************************************)
EXTENDS Integers, Sequences, FiniteSets, TLC

VARIABLES
    redis_client,   \* self.redis_client: None or a client object
    redis_store,    \* contents of the Redis server: key -> [value, expires_at]
    memory_cache,   \* self.memory_cache: key -> [data, expires_at]
    now,            \* datetime.now(), in seconds
    put_log,        \* history: key -> [ttl, at] of the put that wrote the stored entry
    last,           \* history: the operation that was executed last
    key_call,       \* SpecKey, SpecSens: two calls of generate_cache_key and their results
    vectorizer,     \* SpecMatch: self.vectorizer of the matcher instance
    match_call,     \* SpecMatch: calls of match_projects and their results
    db_projects,    \* SpecEndpoint: the rows of the projects table of the user
    response,       \* SpecEndpoint: the last match request and its response
    thread,         \* SpecThreads: per thread, the call it is in and its locals
    inserted        \* SpecThreads: the keys of self.memory_cache in insertion order

vars == <<thread, inserted, redis_client, redis_store, memory_cache, now,
          put_log, last, key_call, vectorizer, match_call, db_projects,
          response>>

----------------------------------------------------------------------------
(* Bounds *)

MaxTime == 1        \* the clock runs from 0 to MaxTime
MaxSkills == 2      \* longest skill list of a job context in SpecKey
HashMod == 65521    \* size of the digest space of the modelled hash

----------------------------------------------------------------------------
(* Python values *)

None == <<>>
Some(x) == <<x>>
IsNone(o) == Len(o) = 0
Range(s) == {s[i] : i \in 1..Len(s)}

Remove(f, ks) == [k \in DOMAIN f \ ks |-> f[k]]
Store(f, k, v) == [x \in DOMAIN f \cup {k} |-> IF x = k THEN v ELSE f[x]]

\* str.startswith
startswith(s, p) == Len(p) <= Len(s) /\ SubSeq(s, 1, Len(p)) = p

\* Redis glob matching of KEYS: '*' any run of characters, '?' one character
RECURSIVE GlobMatch(_, _)
GlobMatch(p, s) ==
    IF p = <<>> THEN s = <<>>
    ELSE IF Head(p) = "*"
         THEN GlobMatch(Tail(p), s) \/ (s # <<>> /\ GlobMatch(p, Tail(s)))
    ELSE IF Head(p) = "?"
         THEN s # <<>> /\ GlobMatch(Tail(p), Tail(s))
    ELSE s # <<>> /\ Head(s) = Head(p) /\ GlobMatch(Tail(p), Tail(s))

----------------------------------------------------------------------------
(* generate_cache_key *)

\* code-point order of the skill strings of the model
SkillOrder == <<"Docker", "Python">>
SkillRank(s) == CHOOSE i \in 1..Len(SkillOrder) : SkillOrder[i] = s

RECURSIVE InsertSorted(_, _)
InsertSorted(x, s) ==
    IF s = <<>> THEN <<x>>
    ELSE IF SkillRank(x) <= SkillRank(Head(s)) THEN <<x>> \o s
    ELSE <<Head(s)>> \o InsertSorted(x, Tail(s))

\* sorted(list)
RECURSIVE sorted(_)
sorted(s) == IF s = <<>> THEN <<>> ELSE InsertSorted(Head(s), sorted(Tail(s)))

\* the job_data dictionary
JobDataUnsorted(job_context) ==
    [job_id |-> job_context.job_id,
     title |-> job_context.title,
     description |-> job_context.description,
     required_skills |-> job_context.required_skills,
     preferred_skills |-> job_context.preferred_skills,
     category |-> job_context.category]

JobData(job_context) ==
    [job_id |-> job_context.job_id,
     title |-> job_context.title,
     description |-> job_context.description,
     required_skills |-> sorted(job_context.required_skills),
     preferred_skills |-> sorted(job_context.preferred_skills),
     category |-> job_context.category]

\* json.dumps(job_data, sort_keys=True): the text as a sequence of atoms
json_dumps_sorted(job_data) ==
    <<"{", "category">> \o
        (IF IsNone(job_data.category) THEN <<"null">> ELSE job_data.category) \o
    <<"description", job_data.description,
      "job_id", job_data.job_id,
      "preferred_skills", "[">> \o job_data.preferred_skills \o <<"]",
      "required_skills", "[">> \o job_data.required_skills \o <<"]",
      "title", job_data.title, "}">>

\* every atom a serialized job_data of the model can contain
AtomTable ==
    <<"{", "}", "[", "]", "null", "category", "description", "job_id",
      "preferred_skills", "required_skills", "title",
      "Docker", "Python", "Backend", "j1", "j2", "Developer", "Engineer",
      "Build APIs", "Build pipelines">>
AtomCode(a) == CHOOSE i \in 1..Len(AtomTable) : AtomTable[i] = a

HexChars == <<"0", "1", "2", "3", "4", "5", "6", "7",
              "8", "9", "a", "b", "c", "d", "e", "f">>

\* hashlib.md5(text): a deterministic digest of the whole text in a finite
\* digest space (polynomial hash modulo HashMod stands for MD5)
RECURSIVE Md5(_, _)
Md5(text, h) ==
    IF text = <<>> THEN h
    ELSE Md5(Tail(text), (h * 31 + AtomCode(Head(text))) % HashMod)

\* .hexdigest(): 32 hexadecimal digits (the 16-bit digest, repeated)
hexdigest(h) == [i \in 1..32 |-> HexChars[((h \div (16 ^ ((i - 1) % 4))) % 16) + 1]]

JobHashLen == 12

job_hash_of(job_data) ==
    SubSeq(hexdigest(Md5(json_dumps_sorted(job_data), 7)), 1, JobHashLen)

MatchPrefix == <<"m", "a", "t", "c", "h", ":">>

generate_cache_key_no_version(user_id, job_context, algorithm_name, algorithm_version) ==
    MatchPrefix \o user_id \o <<":">> \o job_hash_of(JobData(job_context))
        \o <<":">> \o algorithm_name

generate_cache_key(user_id, job_context, algorithm_name, algorithm_version) ==
    MatchPrefix \o user_id \o <<":">> \o job_hash_of(JobData(job_context))
        \o <<":">> \o algorithm_name \o <<":">> \o algorithm_version

\* TFIDFProjectMatcher.get_algorithm_name / get_algorithm_version
get_algorithm_name ==
    <<"T", "F", "-", "I", "D", "F", " ", "+", " ", "K", "e", "y", "w", "o",
      "r", "d", " ", "M", "a", "t", "c", "h", "i", "n", "g">>
get_algorithm_version == <<"1", ".", "0", ".", "0">>

----------------------------------------------------------------------------
(* MatchingCacheService *)

default_ttl == 3600

\* outcome of a method body: an exception, or a returned value
Raise == [raised |-> TRUE, kind |-> "exception", val |-> <<>>]
Return(k, v) == [raised |-> FALSE, kind |-> k, val |-> v]

\* fields of a serializable_result, in insertion order
ResultFields ==
    <<"project_id", "project_title", "confidence_score", "explanation",
      "matching_keywords", "similarity_breakdown", "cached_at">>

\* cache_results, lines 103-114: MatchResult objects to dictionaries
serializable_results(results, t) ==
    [i \in 1..Len(results) |->
        [project_id |-> results[i].project.id,
         project_title |-> results[i].project.title,
         confidence_score |-> results[i].confidence_score,
         explanation |-> results[i].explanation,
         matching_keywords |-> results[i].matching_keywords,
         similarity_breakdown |-> results[i].similarity_breakdown,
         cached_at |-> t]]

\* json.dumps of a list of dictionaries: the text as a sequence of members
json_dumps(lst) ==
    <<"[">> \o
    [i \in 1..Len(lst) |->
        [j \in 1..Len(ResultFields) |-> <<ResultFields[j], lst[i][ResultFields[j]]>>]]
    \o <<"]">>

\* json.loads of such a text
json_loads(text) ==
    LET objs == SubSeq(text, 2, Len(text) - 1)
    IN  [i \in 1..Len(objs) |->
            [f \in {objs[i][j][1] : j \in 1..Len(objs[i])} |->
                objs[i][CHOOSE j \in 1..Len(objs[i]) : objs[i][j][1] = f][2]]]

\* _cleanup_memory_cache
cleanup_memory_cache(mem, t) ==
    Remove(mem, {key \in DOMAIN mem : t >= mem[key].expires_at})

\* get_cached_results with the expired memory entry left in place
get_cached_results_keep_expired(client, red, mem, cache_key, t, fault) ==
    IF ~IsNone(client) /\ fault = "get"
    THEN [out |-> Return("None", <<>>), memory |-> mem]
    ELSE IF ~IsNone(client) /\ cache_key \in DOMAIN red
            /\ red[cache_key].value # <<>>
    THEN [out |-> Return("list", json_loads(red[cache_key].value)),
          memory |-> mem]
    ELSE IF cache_key \in DOMAIN mem /\ t < mem[cache_key].expires_at
    THEN [out |-> Return("list", mem[cache_key].data), memory |-> mem]
    ELSE [out |-> Return("None", <<>>), memory |-> mem]

\* get_cached_results; fault = "get": redis_client.get raises
get_cached_results(client, red, mem, cache_key, t, fault) ==
    LET body ==
            IF ~IsNone(client) /\ fault = "get"
            THEN [out |-> Raise, memory |-> mem]
            ELSE IF ~IsNone(client) /\ cache_key \in DOMAIN red
                    /\ red[cache_key].value # <<>>
            THEN [out |-> Return("list", json_loads(red[cache_key].value)),
                  memory |-> mem]
            ELSE IF cache_key \in DOMAIN mem
            THEN IF t < mem[cache_key].expires_at
                 THEN [out |-> Return("list", mem[cache_key].data), memory |-> mem]
                 ELSE [out |-> Return("None", <<>>),
                       memory |-> Remove(mem, {cache_key})]
            ELSE [out |-> Return("None", <<>>), memory |-> mem]
    IN  IF body.out.raised
        THEN [out |-> Return("None", <<>>), memory |-> body.memory]
        ELSE body

\* cache_results without the call of _cleanup_memory_cache
cache_results_no_cleanup(client, red, mem, cache_key, results, ttl, t, fault) ==
    LET eff == IF IsNone(ttl) \/ ttl[1] = 0 THEN default_ttl ELSE ttl[1]
        ser == serializable_results(results, t)
    IN  IF ~IsNone(client) /\ (fault = "setex" \/ eff <= 0)
        THEN [out |-> Return("bool", FALSE), redis |-> red, memory |-> mem]
        ELSE [out |-> Return("bool", TRUE),
              redis |-> IF IsNone(client) THEN red
                        ELSE Store(red, cache_key,
                                   [value |-> json_dumps(ser),
                                    expires_at |-> t + eff]),
              memory |-> Store(mem, cache_key,
                               [data |-> ser, expires_at |-> t + eff])]

\* cache_results; fault = "setex": json.dumps or redis_client.setex raises.
\* SETEX with a non-positive expire time is rejected by the server.
cache_results(client, red, mem, cache_key, results, ttl, t, fault) ==
    LET eff == IF IsNone(ttl) \/ ttl[1] = 0 THEN default_ttl ELSE ttl[1]
        ser == serializable_results(results, t)
        body ==
            IF ~IsNone(client) /\ (fault = "setex" \/ eff <= 0)
            THEN [out |-> Raise, redis |-> red, memory |-> mem]
            ELSE [out |-> Return("bool", TRUE),
                  redis |-> IF IsNone(client) THEN red
                            ELSE Store(red, cache_key,
                                       [value |-> json_dumps(ser),
                                        expires_at |-> t + eff]),
                  memory |-> cleanup_memory_cache(
                                Store(mem, cache_key,
                                      [data |-> ser, expires_at |-> t + eff]),
                                t)]
    IN  IF body.out.raised
        THEN [out |-> Return("bool", FALSE), redis |-> body.redis,
              memory |-> body.memory]
        ELSE body

UserPrefix(user_id) == MatchPrefix \o user_id \o <<":">>

\* the count misses the keys deleted from Redis
invalidate_user_cache_memory_count(client, red, mem, user_id, fault) ==
    LET keys == {k \in DOMAIN red : GlobMatch(UserPrefix(user_id) \o <<"*">>, k)}
        keys_to_delete == {key \in DOMAIN mem : startswith(key, UserPrefix(user_id))}
    IN  IF ~IsNone(client) /\ (fault = "keys" \/ (keys # {} /\ fault = "delete"))
        THEN [out |-> Return("int", 0), redis |-> red, memory |-> mem]
        ELSE [out |-> Return("int", Cardinality(keys_to_delete)),
              redis |-> IF IsNone(client) THEN red ELSE Remove(red, keys),
              memory |-> Remove(mem, keys_to_delete)]

\* invalidate_user_cache; fault = "keys" / "delete": that Redis call raises
invalidate_user_cache(client, red, mem, user_id, fault) ==
    LET pattern == UserPrefix(user_id) \o <<"*">>
        keys == IF IsNone(client) THEN {}
                ELSE {k \in DOMAIN red : GlobMatch(pattern, k)}
        keys_to_delete == {key \in DOMAIN mem : startswith(key, UserPrefix(user_id))}
        body ==
            IF ~IsNone(client) /\ (fault = "keys" \/ (keys # {} /\ fault = "delete"))
            THEN [out |-> Raise, redis |-> red, memory |-> mem]
            ELSE [out |-> Return("int", Cardinality(keys) + Cardinality(keys_to_delete)),
                  redis |-> Remove(red, keys),
                  memory |-> Remove(mem, keys_to_delete)]
    IN  IF body.out.raised
        THEN [out |-> Return("int", 0), redis |-> body.redis, memory |-> body.memory]
        ELSE body

\* the call of redis_client.info() is not guarded
get_cache_stats_unguarded(client, mem, fault) ==
    IF ~IsNone(client) /\ fault = "info"
    THEN Raise
    ELSE Return("dict", [memory_cache_size |-> Cardinality(DOMAIN mem),
                         redis_available |-> ~IsNone(client)])

\* get_cache_stats; fault = "info": redis_client.info raises
get_cache_stats(client, mem, fault) ==
    LET stats == [memory_cache_size |-> Cardinality(DOMAIN mem),
                  redis_available |-> ~IsNone(client)]
    IN  IF IsNone(client) THEN Return("dict", stats)
        ELSE IF fault = "info"
             THEN Return("dict", [stats EXCEPT !.redis_available = TRUE] @@
                                 [redis_error |-> "error"])
             ELSE Return("dict", stats @@ [redis_used_memory |-> "N/A",
                                           redis_connected_clients |-> 0])

----------------------------------------------------------------------------
(* Inputs of the cache state machine *)

\* users whose results are cached; the second id contains the key delimiter
UserIds == {<<"a">>, <<"a", ":", "b">>}

\* user ids invalidate_user_cache is called with; the last one is a glob
InvalidateIds == UserIds \cup {<<"*">>}

Job0 ==
    [job_id |-> "j1", title |-> "Developer", description |-> "Build APIs",
     company |-> "Acme", required_skills |-> <<"Python">>,
     preferred_skills |-> <<"Docker">>, category |-> None, location |-> None]

\* the keys the endpoint generates for the users, computed once
KeyTable ==
    [u \in UserIds |->
        generate_cache_key(u, Job0, get_algorithm_name, get_algorithm_version)]
KeyOf(user_id) == KeyTable[user_id]

MatchResultOf(id, title, score) ==
    [project |-> [id |-> id, title |-> title],
     confidence_score |-> score,
     explanation |-> [algorithm |-> "TF-IDF + Keyword Matching"],
     matching_keywords |-> <<"python">>,
     similarity_breakdown |-> [content_similarity |-> score]]

\* confidence scores in thousandths
ResultA == MatchResultOf("p1", "Inventory API", 700)
ResultB == MatchResultOf("p2", "Chat App", 250)
ResultLists == {<<ResultA, ResultB>>, <<ResultB, ResultA>>}

\* ttl arguments of cache_results: None (the default), 0, negative, positive
Ttls == {None, Some(0), Some(0 - 1), Some(1)}

\* the threads that share the cache instance
Threads == {"t1", "t2"}

\* a thread outside the cache methods; started and evicted are history
Idle ==
    [pc |-> "idle", op |-> "none", arg |-> <<>>, keys |-> <<>>, used |-> 0,
     read_now |-> 0, expires_at |-> 0, count |-> 0, started |-> {},
     evicted |-> FALSE]

NoThreads == [t \in Threads |-> Idle]

NoOp == [op |-> "init", raised |-> FALSE, kind |-> "None", val |-> <<>>]
Did(op, out) == [op |-> op, raised |-> out.raised, kind |-> out.kind, val |-> out.val]

NoKeyCall == [user1 |-> <<>>, job1 |-> Job0, user2 |-> <<>>, job2 |-> Job0,
              keys |-> None]

NoMatchCall == [projects |-> <<>>, first |-> None, second |-> None]

NoResponse ==
    [request |-> None, reply |-> None, source |-> <<>>, invalidated |-> FALSE]

\* which call of the primary backend raises; none when there is no client
Faults(client, fs) == IF IsNone(client) THEN {"none"} ELSE {"none"} \cup fs

\* the history of stored entries follows the stores
PutLog(pl, red, mem) == [k \in DOMAIN red \cup DOMAIN mem |-> pl[k]]

----------------------------------------------------------------------------
(* The cache state machine *)

\* __init__: self.redis_client after construction.  It stays None when the
\* redis module is missing, when no redis_url is given or when
\* redis.from_url raises; once line 29 has assigned the client, a ping that
\* raises leaves it assigned.  The field ping records what ping() did.
init(redis_available, redis_url, from_url_raises, ping_raises) ==
    IF redis_available /\ ~IsNone(redis_url) /\ redis_url[1] # ""
    THEN IF from_url_raises THEN None
         ELSE Some([url |-> redis_url[1],
                    ping |-> IF ping_raises THEN "raised" ELSE "ok"])
    ELSE None

RedisUrls == {None, Some(""), Some("redis://cache:6379")}

Init ==
    /\ redis_client \in {init(available, url, from_url_raises, ping_raises) :
                            available \in BOOLEAN, url \in RedisUrls,
                            from_url_raises \in BOOLEAN,
                            ping_raises \in BOOLEAN}
    /\ redis_store = <<>>
    /\ memory_cache = <<>>
    /\ now = 0
    /\ put_log = <<>>
    /\ last = NoOp
    /\ key_call = NoKeyCall
    /\ vectorizer = None
    /\ match_call = NoMatchCall
    /\ db_projects = <<>>
    /\ response = NoResponse
    /\ thread = NoThreads
    /\ inserted = <<>>

Get(user_id, fault) ==
    LET r == get_cached_results(redis_client, redis_store, memory_cache,
                                KeyOf(user_id), now, fault)
    IN  /\ memory_cache' = r.memory
        /\ put_log' = PutLog(put_log, redis_store, r.memory)
        /\ last' = Did("get", r.out)
        /\ UNCHANGED <<thread, inserted, redis_client, redis_store, now, key_call,
                     vectorizer, match_call,
                   db_projects, response>>

Put(user_id, results, ttl, fault) ==
    LET key == KeyOf(user_id)
        r == cache_results(redis_client, redis_store, memory_cache, key,
                           results, ttl, now, fault)
        logged == IF r.out.val
                  THEN Store(put_log, key, [ttl |-> ttl, at |-> now])
                  ELSE put_log
    IN  /\ redis_store' = r.redis
        /\ memory_cache' = r.memory
        /\ put_log' = PutLog(logged, r.redis, r.memory)
        /\ last' = Did("put", r.out)
        /\ UNCHANGED <<thread, inserted, redis_client, now, key_call,
                     vectorizer, match_call,
                   db_projects, response>>

Invalidate(user_id, fault) ==
    LET r == invalidate_user_cache(redis_client, redis_store, memory_cache,
                                   user_id, fault)
    IN  /\ redis_store' = r.redis
        /\ memory_cache' = r.memory
        /\ put_log' = PutLog(put_log, r.redis, r.memory)
        /\ last' = Did("invalidate", r.out)
        /\ UNCHANGED <<thread, inserted, redis_client, now, key_call,
                     vectorizer, match_call,
                   db_projects, response>>

Stats(fault) ==
    /\ last' = Did("stats", get_cache_stats(redis_client, memory_cache, fault))
    /\ UNCHANGED <<thread, inserted, redis_client, redis_store, memory_cache, now, put_log, key_call,
                     vectorizer, match_call,
                   db_projects, response>>

\* one second passes; the Redis server drops the keys whose expiry is reached
Tick ==
    /\ now < MaxTime
    /\ now' = now + 1
    /\ redis_store' = Remove(redis_store,
                             {k \in DOMAIN redis_store :
                                 now + 1 >= redis_store[k].expires_at})
    /\ put_log' = PutLog(put_log, redis_store', memory_cache)
    /\ last' = [NoOp EXCEPT !.op = "tick"]
    /\ UNCHANGED <<thread, inserted, redis_client, memory_cache, key_call,
                     vectorizer, match_call,
                   db_projects, response>>

Next ==
    \/ \E u \in UserIds, f \in Faults(redis_client, {"get"}) : Get(u, f)
    \/ \E u \in UserIds, rs \in ResultLists, ttl \in Ttls,
          f \in Faults(redis_client, {"setex"}) : Put(u, rs, ttl, f)
    \/ \E u \in InvalidateIds, f \in Faults(redis_client, {"keys", "delete"}) :
          Invalidate(u, f)
    \/ \E f \in Faults(redis_client, {"info"}) : Stats(f)
    \/ Tick

Spec == Init /\ [][Next]_vars

----------------------------------------------------------------------------
(* generate_cache_key applied to two inputs *)

Skills == Range(SkillOrder)
SkillLists(n) == UNION {[1..m -> Skills] : m \in 0..n}

KeyJobs ==
    {[job_id |-> "j1", title |-> "Developer", description |-> d,
      company |-> c[1], location |-> c[2], category |-> cat,
      required_skills |-> req, preferred_skills |-> pref] :
        d \in {"Build APIs", "Build pipelines"},
        c \in {<<"Acme", None>>, <<"Initech", Some("Remote")>>},
        cat \in {None, Some("Backend")},
        req \in SkillLists(MaxSkills),
        pref \in {<<>>, <<"Docker", "Python">>, <<"Python", "Docker">>}}

InitKey ==
    /\ redis_client = None
    /\ redis_store = <<>>
    /\ memory_cache = <<>>
    /\ now = 0
    /\ put_log = <<>>
    /\ last = NoOp
    /\ key_call \in [user1 : UserIds, job1 : KeyJobs,
                     user2 : UserIds, job2 : KeyJobs, keys : {None}]
    /\ vectorizer = None
    /\ match_call = NoMatchCall
    /\ db_projects = <<>>
    /\ response = NoResponse
    /\ thread = NoThreads
    /\ inserted = <<>>

GenerateKeys ==
    /\ IsNone(key_call.keys)
    /\ key_call' =
        [key_call EXCEPT !.keys =
            Some(<<generate_cache_key(key_call.user1, key_call.job1,
                                      get_algorithm_name, get_algorithm_version),
                   generate_cache_key(key_call.user2, key_call.job2,
                                      get_algorithm_name, get_algorithm_version)>>)]
    /\ UNCHANGED <<thread, inserted, redis_client, redis_store, memory_cache, now, put_log, last,
                   vectorizer, match_call,
                   db_projects, response>>

NextKey == GenerateKeys

SpecKey == InitKey /\ [][NextKey]_vars

----------------------------------------------------------------------------
(* generate_cache_key applied to two (user, job, algorithm name, version)
   tuples; the function takes the name and the version as plain strings *)

AlgorithmNames == {<<"n">>, <<"n", ":", "x">>}
AlgorithmVersions == {<<"1">>, <<"x", ":", "1">>}

SensJobs ==
    {[job_id |-> "j1", title |-> "Developer", description |-> d,
      company |-> "Acme", location |-> None, category |-> None,
      required_skills |-> req, preferred_skills |-> <<>>] :
        d \in {"Build APIs", "Build pipelines"},
        req \in {<<>>, <<"Docker">>, <<"Python">>}}

InitSens ==
    /\ redis_client = None
    /\ redis_store = <<>>
    /\ memory_cache = <<>>
    /\ now = 0
    /\ put_log = <<>>
    /\ last = NoOp
    /\ key_call \in [user1 : UserIds, job1 : SensJobs,
                     name1 : AlgorithmNames, version1 : AlgorithmVersions,
                     user2 : UserIds, job2 : SensJobs,
                     name2 : AlgorithmNames, version2 : AlgorithmVersions,
                     keys : {None}]
    /\ vectorizer = None
    /\ match_call = NoMatchCall
    /\ db_projects = <<>>
    /\ response = NoResponse
    /\ thread = NoThreads
    /\ inserted = <<>>

GenerateKeysFor ==
    /\ IsNone(key_call.keys)
    /\ key_call' =
        [key_call EXCEPT !.keys =
            Some(<<generate_cache_key(key_call.user1, key_call.job1,
                                      key_call.name1, key_call.version1),
                   generate_cache_key(key_call.user2, key_call.job2,
                                      key_call.name2, key_call.version2)>>)]
    /\ UNCHANGED <<thread, inserted, redis_client, redis_store, memory_cache, now, put_log, last,
                   vectorizer, match_call,
                   db_projects, response>>

NextSens == GenerateKeysFor

SpecSens == InitSens /\ [][NextSens]_vars

----------------------------------------------------------------------------
(* TFIDFProjectMatcher: texts.
   A Python str is the sequence of its space-separated words; a nullable
   field is None or Some(value).  Scores are fixed-point numbers in
   thousandths (Scale), TF-IDF weights in tenths. *)

MaxProjects == 2
MaxResults == 2
Scale == 1000

Min(a, b) == IF a <= b THEN a ELSE b
Max(a, b) == IF a >= b THEN a ELSE b

\* x or "" / x or []
OrEmpty(o) == IF IsNone(o) THEN <<>> ELSE o[1]
\* f"{x}"
Format(o) == IF IsNone(o) THEN <<"None">> ELSE o[1]

\* str.lower() of a word
Lower ==
    [Python |-> "python", python |-> "python", FastAPI |-> "fastapi",
     PostgreSQL |-> "postgresql", Docker |-> "docker", Inventory |-> "inventory",
     API |-> "api", Chat |-> "chat", App |-> "app", Developer |-> "developer",
     Build |-> "build", the |-> "the", Other |-> "other", None |-> "none",
     ML |-> "ml", Year2024 |-> "2024", NodeJs |-> "node.js", APIs |-> "apis"]

Word(w) == IF w = "2024" THEN "Year2024" ELSE IF w = "Node.js" THEN "NodeJs" ELSE w

lower(w) == Lower[Word(w)]

\* the maximal runs of word characters (\w) of a lowercased word
WordRuns(w) == IF w = "node.js" THEN <<"node", "js">> ELSE <<w>>

\* len(word), word.isdigit()
len ==
    [python |-> 6, fastapi |-> 7, postgresql |-> 10, docker |-> 6,
     inventory |-> 9, api |-> 3, chat |-> 4, app |-> 3, developer |-> 9,
     build |-> 5, the |-> 3, other |-> 5, none |-> 4, ml |-> 2, node |-> 4,
     js |-> 2, year2024 |-> 4, apis |-> 4]
Run(t) == IF t = "2024" THEN "year2024" ELSE t
isdigit(t) == t = "2024"

\* _get_custom_stop_words
stop_words ==
    {"the", "and", "for", "are", "but", "not", "you", "all", "can", "had",
     "her", "was", "one", "our", "out", "day", "get", "has", "him", "how",
     "man", "new", "now", "old", "see", "two", "way", "who", "boy", "did",
     "its", "let", "put", "say", "she", "too", "use", "will", "about",
     "after", "again", "against", "also", "any", "because", "been",
     "before", "being", "between", "both", "each", "few", "from", "have",
     "here", "into", "more", "most", "only", "other", "some", "such",
     "than", "that", "their", "them", "these", "they", "this",
     "through", "very", "were", "what", "when", "where", "which", "while",
     "with", "would", "your"}

\* " ".join(list of str)
RECURSIVE join(_)
join(texts) == IF texts = <<>> THEN <<>> ELSE Head(texts) \o join(Tail(texts))

\* a technology or skill is one word
Words(items) == [i \in 1..Len(items) |-> <<items[i]>>]

\* text.lower(), then the runs of word characters: what both
\* re.sub(r'[^\w\s]', ' ', ...) followed by a tokenizer and
\* re.findall(r'\b\w{n,}\b', ...) split a text into, before the length filter
RECURSIVE runs(_)
runs(text) ==
    IF text = <<>> THEN <<>>
    ELSE WordRuns(lower(Head(text))) \o runs(Tail(text))

\* _prepare_project_documents, for one project
prepare_project_document(project) ==
    runs(join(<<OrEmpty(project.title),
                OrEmpty(project.description),
                OrEmpty(project.category),
                join(Words(OrEmpty(project.technologies))),
                join(Words(OrEmpty(project.skills_demonstrated))),
                join(OrEmpty(project.highlights))>>))

RECURSIVE prepare_project_documents(_)
prepare_project_documents(projects) ==
    IF projects = <<>> THEN <<>>
    ELSE <<prepare_project_document(Head(projects))>>
            \o prepare_project_documents(Tail(projects))

prepare_job_document(job_context) ==
    runs(join(<<OrEmpty(job_context.title),
                OrEmpty(job_context.description),
                OrEmpty(job_context.category),
                join(Words(job_context.required_skills)),
                join(Words(job_context.preferred_skills))>>))

\* _extract_keywords
extract_keywords(text) ==
    LET words == SelectSeq(runs(text), LAMBDA w : len[Run(w)] >= 3)
    IN  {words[i] : i \in {j \in 1..Len(words) :
                             /\ words[j] \notin stop_words
                             /\ len[Run(words[j])] >= 3
                             /\ ~isdigit(words[j])}}

----------------------------------------------------------------------------
(* sklearn TfidfVectorizer(stop_words, max_features=5000, ngram_range=(1,2),
   min_df=1, max_df=0.8) and cosine_similarity, as _calculate_tfidf_similarity
   uses them.  A term is a sequence of one or two tokens. *)

max_features == 5000
min_df == 1
max_df_tenths == 8
min_token_len == 2

\* ln(k) in tenths, k = 1..8
LnTenths == <<0, 7, 11, 14, 16, 18, 19, 21>>

RECURSIVE SumOver(_, _)
SumOver(S, f) ==
    IF S = {} THEN 0
    ELSE LET x == CHOOSE y \in S : TRUE IN f[x] + SumOver(S \ {x}, f)

\* the least r in lo..hi with r * r >= x
RECURSIVE CeilSqrtIn(_, _, _)
CeilSqrtIn(x, lo, hi) ==
    IF lo >= hi THEN lo
    ELSE LET mid == (lo + hi) \div 2
         IN  IF mid * mid >= x THEN CeilSqrtIn(x, lo, mid)
             ELSE CeilSqrtIn(x, mid + 1, hi)
CeilSqrt(x) == CeilSqrtIn(x, 0, 46340)

\* a function as an explicit table of its values (the same function)
RECURSIVE TableOn(_, _)
TableOn(f, S) ==
    IF S = {} THEN <<>>
    ELSE LET x == CHOOSE y \in S : TRUE
         IN  (x :> f[x]) @@ TableOn(f, S \ {x})
Table(f) == TableOn(f, DOMAIN f)

\* a sequence given by a function on 1..n as an explicit list (the same
\* sequence)
RECURSIVE ListTo(_, _)
ListTo(f, n) == IF n = 0 THEN <<>> ELSE Append(ListTo(f, n - 1), f[n])
List(f) == ListTo(f, Len(f))

\* build_analyzer: tokens of two or more word characters, stop words removed
analyze(document) ==
    SelectSeq(document, LAMBDA t : len[Run(t)] >= min_token_len /\ t \notin stop_words)

RECURSIVE analyze_all(_)
analyze_all(documents) ==
    IF documents = <<>> THEN <<>>
    ELSE <<analyze(Head(documents))>> \o analyze_all(Tail(documents))

\* unigrams and bigrams of an analyzed document
ngrams(tokens) ==
    {<<tokens[i]>> : i \in 1..Len(tokens)}
        \cup {<<tokens[i], tokens[i + 1]>> : i \in 1..(Len(tokens) - 1)}

\* number of occurrences of a term in an analyzed document
tf(term, tokens) ==
    Cardinality({i \in 1..(Len(tokens) - Len(term) + 1) :
                    SubSeq(tokens, i, i + Len(term) - 1) = term})

Unfitted == [vocabulary |-> {}, idf |-> <<>>]

\* _limit_features: terms in more than max_df * n_doc documents or in fewer
\* than min_df documents are dropped; of the rest the max_features most
\* frequent are kept
limit_features(vocabulary, df, total, n_doc) ==
    LET kept == {t \in vocabulary :
                    /\ df[t] >= min_df
                    /\ 10 * df[t] <= max_df_tenths * n_doc}
    IN  IF Cardinality(kept) <= max_features THEN kept
        ELSE CHOOSE top \in SUBSET kept :
                /\ Cardinality(top) = max_features
                /\ \A t \in top, u \in kept \ top : total[t] >= total[u]

\* TfidfVectorizer.fit: [raised, vectorizer]
fit(all_documents) ==
    LET n_doc == Len(all_documents)
        docs == analyze_all(all_documents)
        vocabulary == UNION {ngrams(docs[i]) : i \in 1..n_doc}
        df == [t \in vocabulary |->
                  Cardinality({i \in 1..n_doc : tf(t, docs[i]) > 0})]
        total == [t \in vocabulary |->
                     SumOver(1..n_doc, [i \in 1..n_doc |-> tf(t, docs[i])])]
        kept == limit_features(vocabulary, df, total, n_doc)
    IN  IF vocabulary = {} THEN [raised |-> TRUE, vectorizer |-> Unfitted]
        ELSE IF max_df_tenths * n_doc < 10 * min_df
             THEN [raised |-> TRUE, vectorizer |-> Unfitted]
        ELSE IF kept = {} THEN [raised |-> TRUE, vectorizer |-> Unfitted]
        ELSE [raised |-> FALSE,
              vectorizer |->
                  [vocabulary |-> kept,
                   idf |-> Table([t \in kept |->
                               LnTenths[1 + n_doc] - LnTenths[1 + df[t]] + 10])]]

\* TfidfVectorizer.transform of one document: tf * idf per vocabulary term
\* (the l2 normalisation of the rows cancels in the cosine)
transform(vec, document) ==
    LET tokens == analyze(document)
    IN  Table([t \in vec.vocabulary |-> tf(t, tokens) * vec.idf[t]])

\* cosine_similarity of two rows, in thousandths; 0 for a zero row
cosine_similarity(x, y) ==
    LET terms == DOMAIN x
        dot == SumOver(terms, [t \in terms |-> x[t] * y[t]])
        xx == SumOver(terms, [t \in terms |-> x[t] * x[t]])
        yy == SumOver(terms, [t \in terms |-> y[t] * y[t]])
    IN  IF xx = 0 \/ yy = 0 THEN 0
        ELSE (Scale * dot) \div CeilSqrt(xx * yy)

\* _calculate_tfidf_similarity, lines 172 to 178, after fit_transform:
\* the job row against every project row
similarities_to_job(fitted, project_documents, job_document) ==
    LET vec == fitted.vectorizer
        job_vector == transform(vec, job_document)
    IN  IF fitted.raised
        THEN [raised |-> TRUE, similarities |-> <<>>, vectorizer |-> Some(vec)]
        ELSE [raised |-> FALSE,
              similarities |->
                  List([i \in 1..Len(project_documents) |->
                      cosine_similarity(transform(vec, project_documents[i]),
                                        job_vector)]),
              vectorizer |-> Some(vec)]

\* _calculate_tfidf_similarity with a vectorizer left by an earlier call
\* used again instead of a new one
calculate_tfidf_similarity_reuse(self_vectorizer, project_documents, job_document) ==
    similarities_to_job(
        IF IsNone(self_vectorizer) \/ self_vectorizer[1] = Unfitted
        THEN fit(Append(project_documents, job_document))
        ELSE [raised |-> FALSE, vectorizer |-> self_vectorizer[1]],
        project_documents, job_document)

\* _calculate_tfidf_similarity: [raised, similarities, vectorizer], where
\* vectorizer is self.vectorizer after the call
calculate_tfidf_similarity(self_vectorizer, project_documents, job_document) ==
    similarities_to_job(fit(Append(project_documents, job_document)),
                        project_documents, job_document)

----------------------------------------------------------------------------
(* TFIDFProjectMatcher: keyword overlap, technology alignment, aggregation *)

\* weights of the confidence score and of the technology score, in thousandths
TfidfWeight == 400
KeywordWeight == 350
TechWeight == 250
RequiredWeight == 700
PreferredWeight == 300

\* list(a set of str): the iteration order of a set depends on the hash seed
\* of the process; two orders are modelled
HashSeeds == {0, 1}
WordOrder ==
    <<"2024", "api", "apis", "app", "build", "chat", "developer", "docker", "fastapi",
      "inventory", "js", "ml", "node", "node.js", "none", "other",
      "postgresql", "python", "the">>
Reverse(s) == [i \in 1..Len(s) |-> s[Len(s) + 1 - i]]
list(S, seed) ==
    SelectSeq(IF seed = 0 THEN WordOrder ELSE Reverse(WordOrder),
              LAMBDA w : w \in S)

\* len(a) / len(b) if b else 0
ratio(a, b) == IF b # {} THEN (Scale * Cardinality(a)) \div Cardinality(b) ELSE 0

job_keywords_of(job_context) ==
    extract_keywords(Format(job_context.title) \o Format(job_context.description))

project_keywords_of(project) ==
    extract_keywords(Format(project.title) \o Format(project.description)
                        \o join(OrEmpty(project.highlights)))

\* _calculate_keyword_matches with the score taken over the project's keywords
calculate_keyword_matches_by_project(projects, job_context, seed) ==
    LET job_keywords == job_keywords_of(job_context)
    IN  [i \in 1..Len(projects) |->
            LET project_keywords == project_keywords_of(projects[i])
                matching_keywords == job_keywords \cap project_keywords
            IN  [score |-> Min(ratio(matching_keywords, project_keywords), Scale),
                 keywords |-> list(matching_keywords, seed)]]

\* _calculate_keyword_matches
calculate_keyword_matches(projects, job_context, seed) ==
    LET job_keywords == job_keywords_of(job_context)
    IN  [i \in 1..Len(projects) |->
            LET project_keywords == project_keywords_of(projects[i])
                matching_keywords == job_keywords \cap project_keywords
            IN  [score |-> Min(ratio(matching_keywords, job_keywords), Scale),
                 keywords |-> list(matching_keywords, seed)]]

lower_set(items) == {lower(items[i]) : i \in 1..Len(items)}

\* _calculate_technology_matches with the missing skills taken against the
\* technologies of the project alone
calculate_technology_matches_by_technologies(projects, job_context, seed) ==
    LET required_techs == lower_set(job_context.required_skills)
        preferred_techs == lower_set(job_context.preferred_skills)
        all_job_techs == required_techs \cup preferred_techs
    IN  [i \in 1..Len(projects) |->
            LET project_techs ==
                    lower_set(OrEmpty(projects[i].technologies))
                        \cup lower_set(OrEmpty(projects[i].skills_demonstrated))
                matched_required == project_techs \cap required_techs
                matched_preferred == project_techs \cap preferred_techs
                all_matched == project_techs \cap all_job_techs
                required_score == ratio(matched_required, required_techs)
                preferred_score == ratio(matched_preferred, preferred_techs)
                tech_score == (RequiredWeight * required_score
                                + PreferredWeight * preferred_score) \div Scale
            IN  [score |-> Min(tech_score, Scale),
                 technologies |-> list(all_matched, seed),
                 missing_required |->
                     list(required_techs
                              \ lower_set(OrEmpty(projects[i].technologies)),
                          seed)]]

\* _calculate_technology_matches with the two weights exchanged
calculate_technology_matches_swapped(projects, job_context, seed) ==
    LET required_techs == lower_set(job_context.required_skills)
        preferred_techs == lower_set(job_context.preferred_skills)
        all_job_techs == required_techs \cup preferred_techs
    IN  [i \in 1..Len(projects) |->
            LET project_techs ==
                    lower_set(OrEmpty(projects[i].technologies))
                        \cup lower_set(OrEmpty(projects[i].skills_demonstrated))
                matched_required == project_techs \cap required_techs
                matched_preferred == project_techs \cap preferred_techs
                all_matched == project_techs \cap all_job_techs
                required_score == ratio(matched_required, required_techs)
                preferred_score == ratio(matched_preferred, preferred_techs)
                tech_score == (PreferredWeight * required_score
                                + RequiredWeight * preferred_score) \div Scale
            IN  [score |-> Min(tech_score, Scale),
                 technologies |-> list(all_matched, seed),
                 missing_required |-> list(required_techs \ matched_required, seed)]]

\* _calculate_technology_matches
calculate_technology_matches(projects, job_context, seed) ==
    LET required_techs == lower_set(job_context.required_skills)
        preferred_techs == lower_set(job_context.preferred_skills)
        all_job_techs == required_techs \cup preferred_techs
    IN  [i \in 1..Len(projects) |->
            LET project_techs ==
                    lower_set(OrEmpty(projects[i].technologies))
                        \cup lower_set(OrEmpty(projects[i].skills_demonstrated))
                matched_required == project_techs \cap required_techs
                matched_preferred == project_techs \cap preferred_techs
                all_matched == project_techs \cap all_job_techs
                required_score == ratio(matched_required, required_techs)
                preferred_score == ratio(matched_preferred, preferred_techs)
                tech_score == (RequiredWeight * required_score
                                + PreferredWeight * preferred_score) \div Scale
            IN  [score |-> Min(tech_score, Scale),
                 technologies |-> list(all_matched, seed),
                 missing_required |-> list(required_techs \ matched_required, seed)]]

\* the weighted sum with the TF-IDF and keyword weights exchanged
confidence_swapped(tfidf_score, keyword_score, tech_score) ==
    (KeywordWeight * tfidf_score + TfidfWeight * keyword_score
        + TechWeight * tech_score) \div Scale

\* tfidf_score * 0.4 + keyword_score * 0.35 + tech_score * 0.25
confidence(tfidf_score, keyword_score, tech_score) ==
    (TfidfWeight * tfidf_score + KeywordWeight * keyword_score
        + TechWeight * tech_score) \div Scale

\* an insertion sort that puts a result before the results of equal score
RECURSIVE sort_unstable(_)
sort_unstable(results) ==
    IF results = <<>> THEN <<>>
    ELSE LET n == Len(results)
             r == results[n]
             front == sort_unstable(SubSeq(results, 1, n - 1))
             k == Cardinality({i \in 1..Len(front) :
                                 front[i].confidence_score > r.confidence_score})
         IN  SubSeq(front, 1, k) \o <<r>> \o SubSeq(front, k + 1, Len(front))

\* results.sort(key=lambda x: x.confidence_score, reverse=True): list.sort is
\* stable, also with reverse=True
RECURSIVE sort(_)
sort(results) ==
    IF results = <<>> THEN <<>>
    ELSE LET n == Len(results)
             r == results[n]
             front == sort(SubSeq(results, 1, n - 1))
             k == Cardinality({i \in 1..Len(front) :
                                 front[i].confidence_score >= r.confidence_score})
         IN  SubSeq(front, 1, k) \o <<r>> \o SubSeq(front, k + 1, Len(front))

\* results[:max_results] without the bound of the list length
slice_unbounded(results, max_results) == results

\* results[:max_results]
slice(results, max_results) ==
    IF max_results >= 0
    THEN SubSeq(results, 1, Min(max_results, Len(results)))
    ELSE SubSeq(results, 1, Max(0, Len(results) + max_results))

\* match_projects, lines 56 to 103: the three scores of every project combined
\* into one result per project, in input order
combine_scores(projects, similarity, keyword_matches, tech_matches) ==
    IF similarity.raised
    THEN [raised |-> TRUE, results |-> <<>>,
          vectorizer |-> similarity.vectorizer]
    ELSE [raised |-> FALSE,
          results |->
              List([i \in 1..Len(projects) |->
                LET tfidf_score == similarity.similarities[i]
                    keyword_score == keyword_matches[i].score
                    tech_score == tech_matches[i].score
                IN  [project |-> projects[i].id,
                     confidence_score |->
                         confidence(tfidf_score, keyword_score, tech_score),
                     explanation |->
                         [matched_keywords |-> keyword_matches[i].keywords,
                          matched_technologies |-> tech_matches[i].technologies,
                          missing_required_skills |->
                              tech_matches[i].missing_required],
                     matching_keywords |->
                         keyword_matches[i].keywords
                             \o tech_matches[i].technologies,
                     similarity_breakdown |->
                         [content_similarity |-> tfidf_score,
                          keyword_relevance |-> keyword_score,
                          technical_alignment |-> tech_score]]]),
          vectorizer |-> similarity.vectorizer]

\* match_projects, lines 35 to 103: one result per project, in input order
score_projects(self_vectorizer, projects, job_context, seed) ==
    combine_scores(
        projects,
        calculate_tfidf_similarity(self_vectorizer,
                                   prepare_project_documents(projects),
                                   prepare_job_document(job_context)),
        List(calculate_keyword_matches(projects, job_context, seed)),
        List(calculate_technology_matches(projects, job_context, seed)))

\* match_projects, lines 105 to 107: sorted by confidence, the first
\* max_results kept
top_results(scored, max_results) ==
    IF scored.raised THEN scored
    ELSE [scored EXCEPT !.results = slice(sort(scored.results), max_results)]

\* match_projects: [raised, results, vectorizer], where vectorizer is
\* self.vectorizer after the call
match_projects(self_vectorizer, projects, job_context, max_results, seed) ==
    IF projects = <<>>
    THEN [raised |-> FALSE, results |-> <<>>, vectorizer |-> self_vectorizer]
    ELSE top_results(score_projects(self_vectorizer, projects, job_context,
                                    seed),
                     max_results)

----------------------------------------------------------------------------
(* match_projects called on one matcher instance or on two *)

ProjectOf(id, title, description, category, technologies, skills, highlights) ==
    [id |-> id, title |-> title, description |-> description,
     category |-> category, technologies |-> technologies,
     skills_demonstrated |-> skills, highlights |-> highlights]

MatchProjects ==
    {ProjectOf("p1", Some(<<"Inventory", "API">>), Some(<<"Python", "API">>),
               Some(<<"Other">>), Some(<<"Python", "FastAPI", "PostgreSQL">>),
               Some(<<>>), Some(<<>>)),
     ProjectOf("p2", Some(<<"Chat", "App">>), None, None, None, None, None),
     ProjectOf("p3", Some(<<"ML", "2024">>), Some(<<"the", "Node.js">>),
               Some(<<"Other">>), Some(<<"Node.js", "Docker">>),
               Some(<<"python">>), Some(<< <<"Build", "API">> >>)),
     ProjectOf("p4", None, Some(<<"Chat", "App">>), Some(<<"Other">>),
               Some(<<>>), Some(<<>>), None)}

\* the lists of at most n projects; a user's projects are distinct rows
ProjectLists(n) ==
    UNION {{ps \in [1..m -> MatchProjects] :
                \A i, j \in 1..m : ps[i] = ps[j] => i = j} : m \in 0..n}

JobOf(title, description, required_skills, preferred_skills) ==
    [job_id |-> "j1", title |-> title, description |-> description,
     company |-> "Acme", required_skills |-> required_skills,
     preferred_skills |-> preferred_skills, category |-> None,
     location |-> None]

MatchJobs ==
    {JobOf(Some(<<"Python", "Developer">>),
           Some(<<"Build", "the", "Inventory", "API">>),
           <<"Python", "PostgreSQL">>, <<"Docker">>),
     JobOf(Some(<<"Developer">>), None, <<>>, <<>>),
     JobOf(Some(<<"Chat", "App">>), Some(<<>>), <<>>, <<>>),
     JobOf(Some(<<"ML", "Developer">>), Some(<<"Node.js", "2024">>),
           <<"python", "Python">>, <<"Node.js">>)}

\* the call made between two calls of interest
OtherProjects ==
    <<ProjectOf("p1", Some(<<"Inventory", "API">>), Some(<<"Python", "API">>),
                Some(<<"Other">>), Some(<<"Python", "FastAPI", "PostgreSQL">>),
                Some(<<>>), Some(<<>>))>>
OtherJob == JobOf(Some(<<"Developer">>), None, <<>>, <<>>)

\* what a call made on an instance with the given self.vectorizer returned
Returned(self_vectorizer, out) ==
    [raised |-> out.raised, results |-> out.results,
     instance |-> IF IsNone(self_vectorizer) THEN "new" ELSE "used"]

InitMatch ==
    /\ redis_client = None
    /\ redis_store = <<>>
    /\ memory_cache = <<>>
    /\ now = 0
    /\ put_log = <<>>
    /\ last = NoOp
    /\ key_call = NoKeyCall
    /\ vectorizer = None
    /\ match_call \in [projects : ProjectLists(MaxProjects),
                       job_context : MatchJobs,
                       max_results : {1, MaxResults},
                       first : {None}, second : {None}]
    /\ db_projects = <<>>
    /\ response = NoResponse
    /\ thread = NoThreads
    /\ inserted = <<>>

\* the first call of match_projects(projects, job_context, max_results)
MatchFirst(seed) ==
    /\ IsNone(match_call.first)
    /\ LET out == match_projects(vectorizer, match_call.projects,
                                 match_call.job_context,
                                 match_call.max_results, seed)
       IN  /\ match_call' = [match_call EXCEPT !.first = Some(Returned(vectorizer, out))]
           /\ vectorizer' = out.vectorizer
    /\ UNCHANGED <<thread, inserted, redis_client, redis_store, memory_cache, now, put_log, last,
                   key_call,
                   db_projects, response>>

\* a call with other arguments on the same instance
MatchOther ==
    /\ IsNone(match_call.second)
    /\ vectorizer' = match_projects(vectorizer, OtherProjects, OtherJob,
                                    1, 0).vectorizer
    /\ UNCHANGED <<thread, inserted, redis_client, redis_store, memory_cache, now, put_log, last,
                   key_call, match_call,
                   db_projects, response>>

\* TFIDFProjectMatcher(): the next call is made on a new instance
NewMatcher ==
    /\ ~IsNone(match_call.first)
    /\ IsNone(match_call.second)
    /\ vectorizer # None
    /\ vectorizer' = None
    /\ UNCHANGED <<thread, inserted, redis_client, redis_store, memory_cache, now, put_log, last,
                   key_call, match_call,
                   db_projects, response>>

\* the second call of match_projects(projects, job_context, max_results)
MatchSecond(seed) ==
    /\ ~IsNone(match_call.first)
    /\ IsNone(match_call.second)
    /\ LET out == match_projects(vectorizer, match_call.projects,
                                 match_call.job_context,
                                 match_call.max_results, seed)
       IN  /\ match_call' = [match_call EXCEPT !.second = Some(Returned(vectorizer, out))]
           /\ vectorizer' = out.vectorizer
    /\ UNCHANGED <<thread, inserted, redis_client, redis_store, memory_cache, now, put_log, last,
                   key_call,
                   db_projects, response>>

NextMatch ==
    \/ \E seed \in HashSeeds : MatchFirst(seed)
    \/ MatchOther
    \/ NewMatcher
    \/ \E seed \in HashSeeds : MatchSecond(seed)

SpecMatch == InitMatch /\ [][NextMatch]_vars

----------------------------------------------------------------------------
(* Properties of the cache *)

\* what get_cached_results(key) returns in the current state
Lookup(key, fault) ==
    get_cached_results(redis_client, redis_store, memory_cache, key, now, fault).out

\* the TTL as given to cache_results; the default when none is given
Given(ttl) == IF IsNone(ttl) THEN default_ttl ELSE ttl[1]

\* the TTL given at the put that wrote the entry stored under key has elapsed
Elapsed(key) == now >= put_log[key].at + Given(put_log[key].ttl)

SameResults(val, results) ==
    /\ Len(val) = Len(results)
    /\ \A i \in 1..Len(results) :
        /\ val[i].project_id = results[i].project.id
        /\ val[i].confidence_score = results[i].confidence_score

\* C1: get never returns an entry whose TTL, as given at the put that wrote
\* it, has elapsed.
C1_NoExpiredEntryReturned ==
    [][\A u \in UserIds, f \in {"none", "get"} :
          (Get(u, f) /\ last'.kind = "list") => ~Elapsed(KeyOf(u))]_vars

\* C2: an entry written with ttl = 0, or with a negative ttl, is never
\* returned by a later get for its key.
C2_ZeroTtlNeverReturned ==
    [][\A u \in UserIds, f \in {"none", "get"} :
          (/\ Get(u, f)
           /\ KeyOf(u) \in DOMAIN put_log
           /\ ~IsNone(put_log[KeyOf(u)].ttl)
           /\ put_log[KeyOf(u)].ttl[1] <= 0)
          => last'.kind = "None"]_vars

\* C3: a get that follows a put(k, R) immediately, before the given TTL
\* elapses, returns records with the project ids, scores and order of R.
C3_RoundTrip ==
    [][\A u \in UserIds, rs \in ResultLists, ttl \in Ttls,
          pf \in {"none", "setex"}, gf \in Faults(redis_client, {"get"}) :
          (Put(u, rs, ttl, pf) /\ Given(ttl) > 0)
          => (/\ Lookup(KeyOf(u), gf)'.kind = "list"
              /\ SameResults(Lookup(KeyOf(u), gf)'.val, rs))]_vars

\* C4: invalidate_user(u) leaves no entry that get returns for u, and every
\* entry of another user that get returned before is still returned.
C4_InvalidateAllAndOnly ==
    [][\A u \in InvalidateIds, f \in {"none", "keys", "delete"} :
          Invalidate(u, f)
          => \A v \in UserIds :
                IF v = u
                THEN Lookup(KeyOf(v), "none")'.kind = "None"
                ELSE Lookup(KeyOf(v), "none").kind = "list"
                     => Lookup(KeyOf(v), "none")' = Lookup(KeyOf(v), "none")]_vars

\* C5: no operation raises, whatever the primary backend does: get returns a
\* list or None, put a boolean, invalidate_user an integer, stats a dictionary.
C5_NeverRaises ==
    /\ ~last.raised
    /\ last.op = "get" => last.kind \in {"list", "None"}
    /\ last.op = "put" => last.kind = "bool" /\ last.val \in BOOLEAN
    /\ last.op = "invalidate" => last.kind = "int" /\ last.val \in Nat
    /\ last.op = "stats" => last.kind = "dict"

\* stats has returned a dictionary although redis_client.info raised
C5_Witness ==
    /\ ~IsNone(redis_client)
    /\ last.op = "stats"
    /\ last.kind = "dict"
    /\ "redis_error" \in DOMAIN last.val

\* C6: when the primary raises during get(key) and the fallback store holds
\* an unexpired entry for key, get returns that entry.
C6_GetFallsBack ==
    [][\A u \in UserIds :
          (/\ ~IsNone(redis_client)
           /\ Get(u, "get")
           /\ KeyOf(u) \in DOMAIN memory_cache
           /\ now < memory_cache[KeyOf(u)].expires_at)
          => (/\ last'.kind = "list"
              /\ last'.val = memory_cache[KeyOf(u)].data)]_vars

\* C7: when the primary raises during put(key, results, ttl), the entry is
\* still written to the fallback store with its locally tracked expiry.
C7_PutFallsBack ==
    [][\A u \in UserIds, rs \in ResultLists, ttl \in Ttls :
          (/\ ~IsNone(redis_client)
           /\ Put(u, rs, ttl, "setex")
           /\ Given(ttl) > 0)
          => (/\ KeyOf(u) \in DOMAIN memory_cache'
              /\ memory_cache'[KeyOf(u)] =
                    [data |-> serializable_results(rs, now),
                     expires_at |-> now + Given(ttl)])]_vars

\* C8: when the primary raises during invalidate_user(u), every entry for u
\* in the fallback store is still removed.
C8_InvalidateFallsBack ==
    [][\A u \in InvalidateIds :
          (~IsNone(redis_client) /\ Invalidate(u, "keys"))
          => \A k \in DOMAIN memory_cache' : ~startswith(k, UserPrefix(u))]_vars

\* C9: invalidate_user returns the number of keys it deleted from the primary
\* backend plus the number of entries it deleted from the fallback store.
C9_InvalidateCount ==
    [][last'.op = "invalidate" =>
          \A u \in InvalidateIds, f \in {"none", "keys", "delete"} :
              Invalidate(u, f)
              => (/\ last'.kind = "int"
                  /\ last'.val =
                        (Cardinality(DOMAIN redis_store)
                            - Cardinality(DOMAIN redis_store'))
                        + (Cardinality(DOMAIN memory_cache)
                            - Cardinality(DOMAIN memory_cache')))]_vars

\* an invalidation has removed two keys from Redis and two from memory
C9_Witness ==
    /\ ~IsNone(redis_client)
    /\ last.op = "invalidate"
    /\ last.val = 4

----------------------------------------------------------------------------
(* Properties of generate_cache_key *)

Count(x, s) == Cardinality({i \in 1..Len(s) : s[i] = x})
SameMultiset(s, t) == \A x \in Skills : Count(x, s) = Count(x, t)

SameHashedFields(j1, j2) ==
    /\ j1.job_id = j2.job_id
    /\ j1.title = j2.title
    /\ j1.description = j2.description
    /\ j1.category = j2.category

\* C10 as stated: equal user id, hashed job fields and skill sets give the
\* same key, whatever the order of the skill lists, the company, the location.
C10_StableOnSkillSets ==
    (/\ ~IsNone(key_call.keys)
     /\ key_call.user1 = key_call.user2
     /\ SameHashedFields(key_call.job1, key_call.job2)
     /\ Range(key_call.job1.required_skills) = Range(key_call.job2.required_skills)
     /\ Range(key_call.job1.preferred_skills) = Range(key_call.job2.preferred_skills))
    => key_call.keys[1][1] = key_call.keys[1][2]

\* C10 amended: equal user id, hashed job fields and skill lists that are
\* equal up to order give the same key, whatever the company and location.
C10_StableOnSkillLists ==
    (/\ ~IsNone(key_call.keys)
     /\ key_call.user1 = key_call.user2
     /\ SameHashedFields(key_call.job1, key_call.job2)
     /\ SameMultiset(key_call.job1.required_skills, key_call.job2.required_skills)
     /\ SameMultiset(key_call.job1.preferred_skills, key_call.job2.preferred_skills))
    => key_call.keys[1][1] = key_call.keys[1][2]

\* two calls whose skill lists differ in order and whose company and
\* location differ have returned the same key
C10_Witness ==
    /\ ~IsNone(key_call.keys)
    /\ key_call.user1 = key_call.user2
    /\ SameHashedFields(key_call.job1, key_call.job2)
    /\ key_call.job1.required_skills = <<"Python", "Docker">>
    /\ key_call.job2.required_skills = <<"Docker", "Python">>
    /\ key_call.job1.preferred_skills # key_call.job2.preferred_skills
    /\ SameMultiset(key_call.job1.preferred_skills, key_call.job2.preferred_skills)
    /\ key_call.job1.company # key_call.job2.company
    /\ key_call.job1.location # key_call.job2.location
    /\ key_call.keys[1][1] = key_call.keys[1][2]

----------------------------------------------------------------------------
(* Sensitivity of generate_cache_key *)

HasColon(s) == \E i \in 1..Len(s) : s[i] = ":"

SameTuple ==
    /\ key_call.user1 = key_call.user2
    /\ JobData(key_call.job1) = JobData(key_call.job2)
    /\ key_call.name1 = key_call.name2
    /\ key_call.version1 = key_call.version2

----------------------------------------------------------------------------
(* Properties of match_projects *)

\* what the calls made so far have returned or raised
Outcomes ==
    {c[1] : c \in {x \in {match_call.first, match_call.second} : ~IsNone(x)}}

\* C12: a call that returns gives at most min(max_results, |projects|)
\* results, each with a confidence score between 0 and 1, and a call on the
\* empty project list returns the empty list.
C12_BoundedResults ==
    \A out \in Outcomes :
        /\ ~out.raised =>
            /\ Len(out.results)
                   <= Min(match_call.max_results, Len(match_call.projects))
            /\ \A i \in 1..Len(out.results) :
                   /\ out.results[i].confidence_score >= 0
                   /\ out.results[i].confidence_score <= Scale
        /\ match_call.projects = <<>> => (~out.raised /\ out.results = <<>>)

\* a call on more projects than max_results has returned max_results results,
\* the first with a confidence score strictly between 0 and 1
C12_Witness ==
    /\ ~IsNone(match_call.first)
    /\ ~match_call.first[1].raised
    /\ Len(match_call.projects) > match_call.max_results
    /\ Len(match_call.first[1].results) = match_call.max_results
    /\ match_call.first[1].results[1].confidence_score > 0
    /\ match_call.first[1].results[1].confidence_score < Scale

\* the results of all projects of the current call, in input order
AllScored ==
    score_projects(None, match_call.projects, match_call.job_context, 0).results

\* the position in the input list of the project of a result
InputIndex(r) ==
    CHOOSE k \in 1..Len(match_call.projects) : match_call.projects[k].id = r.project

\* C13: the returned list is the first max_results elements of the stable
\* descending sort of all projects by confidence score: it holds
\* min(max_results, |projects|) distinct projects with their scores, the
\* scores do not increase along it, no omitted project scores higher than a
\* returned one, and projects of equal score are in input order, an omitted
\* one coming after every returned one of the same score.
C13_StableTopK ==
    \A out \in Outcomes :
        (~out.raised /\ match_call.projects # <<>>) =>
            LET R == out.results
                all == AllScored
                at == [i \in 1..Len(R) |-> InputIndex(R[i])]
                returned == {at[i] : i \in 1..Len(R)}
            IN  /\ Len(R) = Min(match_call.max_results, Len(match_call.projects))
                /\ \A i \in 1..Len(R) :
                       /\ all[at[i]].project = R[i].project
                       /\ all[at[i]].confidence_score = R[i].confidence_score
                /\ \A i, j \in 1..Len(R) :
                       i < j =>
                           /\ R[i].confidence_score >= R[j].confidence_score
                           /\ R[i].confidence_score = R[j].confidence_score
                                  => at[i] < at[j]
                /\ \A k \in (1..Len(all)) \ returned :
                       \A i \in 1..Len(R) :
                           /\ all[k].confidence_score <= R[i].confidence_score
                           /\ all[k].confidence_score = R[i].confidence_score
                                  => at[i] < k

\* a call has returned two projects of equal confidence score, in input order
C13_Witness ==
    /\ ~IsNone(match_call.first)
    /\ ~match_call.first[1].raised
    /\ Len(match_call.first[1].results) = 2
    /\ match_call.first[1].results[1].confidence_score
           = match_call.first[1].results[2].confidence_score
    /\ match_call.first[1].results[1].project = match_call.projects[1].id
    /\ match_call.first[1].results[2].project = match_call.projects[2].id

\* the scores and the order of a returned list
ScoresOf(out) ==
    [raised |-> out.raised,
     results |-> [i \in 1..Len(out.results) |->
                     [project |-> out.results[i].project,
                      confidence_score |-> out.results[i].confidence_score,
                      similarity_breakdown |->
                          out.results[i].similarity_breakdown]]]

\* C14: two calls with the same project list and job context, on the same
\* matcher instance or on different ones, before or after calls with other
\* arguments and under any iteration order of the keyword sets, give the
\* same scores in the same order.
C14_Deterministic ==
    (~IsNone(match_call.first) /\ ~IsNone(match_call.second))
        => ScoresOf(match_call.first[1]) = ScoresOf(match_call.second[1])

\* a call on an instance that had served another call and a call on a new
\* instance have returned the same scores, with the matched keywords listed
\* in different orders
C14_Witness ==
    /\ ~IsNone(match_call.first)
    /\ ~IsNone(match_call.second)
    /\ match_call.first[1].instance = "used"
    /\ match_call.second[1].instance = "new"
    /\ ~match_call.first[1].raised
    /\ match_call.first[1].results # <<>>
    /\ match_call.first[1].results[1].confidence_score > 0
    /\ match_call.first[1].results[1].matching_keywords
           # match_call.second[1].results[1].matching_keywords
    /\ ScoresOf(match_call.first[1]) = ScoresOf(match_call.second[1])

\* a project with its null fields replaced by the empty string or list
NullsAsEmpty(project) ==
    [f \in DOMAIN project |->
        IF f = "id" THEN project[f]
        ELSE IF IsNone(project[f]) THEN Some(<<>>) ELSE project[f]]

MatchedKeywordsOf(out) ==
    [i \in 1..Len(out.results) |->
        Range(out.results[i].explanation.matched_keywords)]

\* C15 as stated: a call on a list with null project fields raises exactly
\* when the call on the list with those fields empty raises, and gives the
\* same scores, the same matched keywords and the same order.
C15_NullFieldsAsEmpty ==
    \A out \in Outcomes :
        LET projects == match_call.projects
            filled == match_projects(
                          None,
                          [i \in 1..Len(projects) |-> NullsAsEmpty(projects[i])],
                          match_call.job_context, match_call.max_results, 0)
        IN  /\ out.raised = filled.raised
            /\ ScoresOf(out) = ScoresOf(filled)
            /\ MatchedKeywordsOf(out) = MatchedKeywordsOf(filled)

\* a job context with no description and no required or preferred skills
BareJob(job_context) ==
    /\ OrEmpty(job_context.description) = <<>>
    /\ job_context.required_skills = <<>>
    /\ job_context.preferred_skills = <<>>

\* C16 as stated: for a job context with no description and no skills a call
\* on a non-empty project list returns, and every result has
\* technology-alignment score 0 and content-similarity score 0.
C16_BareJobReturnsZeroScores ==
    \A out \in Outcomes :
        (BareJob(match_call.job_context) /\ match_call.projects # <<>>) =>
            /\ ~out.raised
            /\ \A i \in 1..Len(out.results) :
                   /\ out.results[i].similarity_breakdown.technical_alignment = 0
                   /\ out.results[i].similarity_breakdown.content_similarity = 0

\* the lowercased technologies and demonstrated skills of a project
ProjectTechs(project) ==
    lower_set(OrEmpty(project.technologies))
        \cup lower_set(OrEmpty(project.skills_demonstrated))

NonZero(n) == IF n = 0 THEN 1 ELSE n

\* C17: the technology-alignment score of a result is
\* 0.7 * |techs /\ required| / |required| + 0.3 * |techs /\ preferred| / |preferred|
\* over lowercased sets, a ratio being 0 when its job-side set is empty, and
\* is at most 1; it is 0 when both skill lists are empty.  The score being
\* in thousandths rounded down twice, the equality is checked to within two
\* thousandths, multiplied by the two denominators.
C17_TechnologyAlignment ==
    \A out \in Outcomes :
        \A i \in 1..Len(out.results) :
            LET score == out.results[i].similarity_breakdown.technical_alignment
                techs == ProjectTechs(match_call.projects[InputIndex(out.results[i])])
                required == lower_set(match_call.job_context.required_skills)
                preferred == lower_set(match_call.job_context.preferred_skills)
                nr == NonZero(Cardinality(required))
                np == NonZero(Cardinality(preferred))
                exact == RequiredWeight * Cardinality(techs \cap required) * np
                            + PreferredWeight * Cardinality(techs \cap preferred) * nr
            IN  /\ score * nr * np <= exact
                /\ exact < (score + 2) * nr * np
                /\ score <= Scale
                /\ (required = {} /\ preferred = {}) => score = 0

\* technologies Python, FastAPI, PostgreSQL against required Python,
\* PostgreSQL and preferred Docker have scored 0.7
C17_Witness ==
    /\ ~IsNone(match_call.first)
    /\ match_call.job_context.required_skills = <<"Python", "PostgreSQL">>
    /\ match_call.job_context.preferred_skills = <<"Docker">>
    /\ \E i \in 1..Len(match_call.first[1].results) :
           LET r == match_call.first[1].results[i]
           IN  /\ match_call.projects[InputIndex(r)].technologies
                      = Some(<<"Python", "FastAPI", "PostgreSQL">>)
               /\ match_call.projects[InputIndex(r)].skills_demonstrated
                      = Some(<<>>)
               /\ r.similarity_breakdown.technical_alignment = 700

\* the weights in percent that the explanation of the algorithm states
ExplainedWeights == <<40, 35, 25>>

\* C18: the confidence score of every result is 0.4 * content similarity
\* + 0.35 * keyword overlap + 0.25 * technology alignment of its project,
\* the sub-scores being those of the result's similarity breakdown and those
\* computed for the project; the weights sum to 1 and are the ones the
\* explanation of the algorithm states.  The score being in thousandths
\* rounded down, the equality is checked to within one thousandth.
C18_WeightedSum ==
    /\ TfidfWeight + KeywordWeight + TechWeight = Scale
    /\ <<TfidfWeight, KeywordWeight, TechWeight>>
           = [k \in 1..3 |-> ExplainedWeights[k] * (Scale \div 100)]
    /\ Outcomes # {} =>
        LET projects == match_call.projects
            job == match_call.job_context
            similarities ==
                calculate_tfidf_similarity(
                    None, prepare_project_documents(projects),
                    prepare_job_document(job)).similarities
            keyword_matches == calculate_keyword_matches(projects, job, 0)
            tech_matches == calculate_technology_matches(projects, job, 0)
        IN  \A out \in Outcomes :
                \A i \in 1..Len(out.results) :
                    LET r == out.results[i]
                        k == InputIndex(r)
                        b == r.similarity_breakdown
                        sum == ExplainedWeights[1] * b.content_similarity
                                   + ExplainedWeights[2] * b.keyword_relevance
                                   + ExplainedWeights[3] * b.technical_alignment
                    IN  /\ 100 * r.confidence_score <= sum
                        /\ sum < 100 * (r.confidence_score + 1)
                        /\ b.content_similarity = similarities[k]
                        /\ b.keyword_relevance = keyword_matches[k].score
                        /\ b.technical_alignment = tech_matches[k].score

\* a result whose three sub-scores are all positive and different has been
\* returned
C18_Witness ==
    /\ ~IsNone(match_call.first)
    /\ \E i \in 1..Len(match_call.first[1].results) :
           LET b == match_call.first[1].results[i].similarity_breakdown
           IN  /\ b.content_similarity > 0
               /\ b.keyword_relevance > b.content_similarity
               /\ b.technical_alignment > b.keyword_relevance

\* C19 as stated: the matching_keywords of every result hold exactly the
\* matched keywords and the matched technologies of its project, and no term
\* twice.
C19_MatchingKeywordsDistinct ==
    \A out \in Outcomes :
        \A i \in 1..Len(out.results) :
            LET r == out.results[i]
                ks == r.matching_keywords
            IN  /\ Range(ks) = Range(r.explanation.matched_keywords)
                                  \cup Range(r.explanation.matched_technologies)
                /\ \A a, b \in 1..Len(ks) : ks[a] = ks[b] => a = b

----------------------------------------------------------------------------
(* Order of the look-ups of get_cached_results *)

\* C21: a get whose Redis call answers returns the entry of the primary
\* backend when it has one for the key and leaves the fallback store as it
\* is; only when the primary has none, or there is no primary, does it look
\* in the fallback store: an unexpired entry is returned, an expired one is
\* removed from the store and the get reports a miss, as it does when the
\* fallback store has no entry; no other entry is touched.
C21_PrimaryThenFallback ==
    [][last'.op = "get" =>
          \A u \in UserIds :
              Get(u, "none") =>
                  LET key == KeyOf(u)
                  IN  IF ~IsNone(redis_client) /\ key \in DOMAIN redis_store
                      THEN /\ last'.kind = "list"
                           /\ last'.val = json_loads(redis_store[key].value)
                           /\ memory_cache' = memory_cache
                      ELSE IF key \in DOMAIN memory_cache
                              /\ now < memory_cache[key].expires_at
                      THEN /\ last'.kind = "list"
                           /\ last'.val = memory_cache[key].data
                           /\ memory_cache' = memory_cache
                      ELSE /\ last'.kind = "None"
                           /\ memory_cache' = Remove(memory_cache, {key})]_vars

\* a get has returned the entry the primary backend holds for its key and
\* has left the fallback store as it was, an expired entry of another key
\* included
C21_Witness ==
    /\ last.op = "get"
    /\ last.kind = "list"
    /\ ~IsNone(redis_client)
    /\ \E u, v \in UserIds :
          /\ KeyOf(u) \in DOMAIN redis_store
          /\ last.val = json_loads(redis_store[KeyOf(u)].value)
          /\ KeyOf(v) \in DOMAIN memory_cache
          /\ memory_cache[KeyOf(v)].expires_at <= now

----------------------------------------------------------------------------
(* A primary backend that was unreachable at construction *)

\* the ping of __init__ raised: the primary was configured but unreachable
UnreachableAtInit == ~IsNone(redis_client) /\ redis_client[1].ping = "raised"

\* C22: when the ping at construction raised, a put(k, R) with a positive
\* TTL returns True and leaves R in the memory cache, and a get(k) that
\* follows it returns R, whatever the primary backend does afterwards.
C22_MemoryAfterFailedPing ==
    [][last'.op = "put" =>
          \A u \in UserIds, rs \in ResultLists, ttl \in Ttls,
             pf \in {"none", "setex"}, gf \in {"none", "get"} :
              (UnreachableAtInit /\ Put(u, rs, ttl, pf) /\ Given(ttl) > 0)
              => (/\ last'.val = TRUE
                  /\ KeyOf(u) \in DOMAIN memory_cache'
                  /\ memory_cache'[KeyOf(u)].data = serializable_results(rs, now)
                  /\ Lookup(KeyOf(u), gf)'.kind = "list"
                  /\ SameResults(Lookup(KeyOf(u), gf)'.val, rs))]_vars

----------------------------------------------------------------------------
(* The sweep of cache_results *)

\* C26: right after a cache_results that returned True, the memory cache
\* holds no entry whose expiry time is at or before the current time.
C26_SweptAfterPut ==
    (last.op = "put" /\ last.val = TRUE)
        => \A key \in DOMAIN memory_cache : memory_cache[key].expires_at > now

\* a cache_results has returned True and has left the memory cache empty:
\* its sweep has removed the entry it had just written with a negative TTL,
\* and whatever expired entry there was before
C26_Witness ==
    /\ last.op = "put"
    /\ last.val = TRUE
    /\ now = 1
    /\ memory_cache = <<>>

----------------------------------------------------------------------------
(* The missing required skills of an explanation *)

\* C27: in every result the missing-required-skills list of the explanation
\* lists, each once, the lowercased required skills of the job that are not
\* among the lowercased technologies and demonstrated skills of the project;
\* the required skills among the matched technologies and the missing ones
\* are disjoint and together are the required set.
C27_MissingRequiredSkills ==
    \A out \in Outcomes :
        \A i \in 1..Len(out.results) :
            LET details == out.results[i].explanation
                missing == details.missing_required_skills
                required == lower_set(match_call.job_context.required_skills)
                techs == ProjectTechs(match_call.projects[InputIndex(out.results[i])])
                matched_required == Range(details.matched_technologies) \cap required
            IN  /\ Range(missing) = required \ techs
                /\ Cardinality(Range(missing)) = Len(missing)
                /\ matched_required = required \cap techs
                /\ matched_required \cap Range(missing) = {}
                /\ matched_required \cup Range(missing) = required

\* a project that demonstrates the skill python and has no PostgreSQL, against
\* the required skills Python and PostgreSQL, has python matched and
\* postgresql missing
C27_Witness ==
    /\ ~IsNone(match_call.first)
    /\ match_call.job_context.required_skills = <<"Python", "PostgreSQL">>
    /\ \E i \in 1..Len(match_call.first[1].results) :
           LET r == match_call.first[1].results[i]
           IN  /\ match_call.projects[InputIndex(r)].skills_demonstrated
                      = Some(<<"python">>)
               /\ r.explanation.missing_required_skills = <<"postgresql">>
               /\ "python" \in Range(r.explanation.matched_technologies)

----------------------------------------------------------------------------
(* Vocabulary pruning *)

\* the analyzed corpus of the current call: the project documents, then the
\* job document
Corpus ==
    analyze_all(Append(prepare_project_documents(match_call.projects),
                       prepare_job_document(match_call.job_context)))

\* the number of documents of a corpus a term occurs in
DocumentFrequency(term, docs) ==
    Cardinality({i \in 1..Len(docs) : tf(term, docs[i]) > 0})

\* C30 as stated: the fitted vocabulary holds no term that occurs in more
\* than 80% of the documents of the corpus, and a call on exactly one project
\* returns a result whose content-similarity score is 0, whatever the texts.
C30_SingleProjectZeroContent ==
    \A out \in Outcomes :
        LET docs == Corpus
            fitted == fit(Append(prepare_project_documents(match_call.projects),
                                 prepare_job_document(match_call.job_context)))
        IN  /\ match_call.projects # <<>> =>
                \A t \in fitted.vectorizer.vocabulary :
                    10 * DocumentFrequency(t, docs) <= max_df_tenths * Len(docs)
            /\ Len(match_call.projects) = 1 =>
                /\ ~out.raised
                /\ Len(out.results) = 1
                /\ out.results[1].similarity_breakdown.content_similarity = 0

----------------------------------------------------------------------------
(* The match endpoint (app/api/v1/endpoints/project_matching.py) and the
   project endpoints (app/api/v1/endpoints/projects.py) of one user.  The
   module-level cache_service is MatchingCacheService(): it has no Redis
   client. *)

EndpointUser == <<"a">>

\* the hash seed of the server process
ProcessSeed == 0

\* the job of the requests: Job0 with its texts as the matcher reads them
EndpointJob ==
    JobOf(Some(<<"Developer">>), Some(<<"Build", "APIs">>),
          <<"Python">>, <<"Docker">>)

\* the rows a create_project request can insert
EndpointProjects ==
    {ProjectOf("p1", Some(<<"Inventory", "API">>), Some(<<"Python", "API">>),
               Some(<<"Other">>), Some(<<"Python", "FastAPI", "PostgreSQL">>),
               Some(<<>>), Some(<<>>)),
     ProjectOf("p3", Some(<<"ML", "2024">>), Some(<<"the", "Node.js">>),
               Some(<<"Other">>), Some(<<"Node.js", "Docker">>),
               Some(<<"python">>), Some(<< <<"Build", "API">> >>))}

\* the update_data of an update_project request
Updates == {[technologies |-> Some(<<"Docker">>),
             skills_demonstrated |-> Some(<<"Python">>)]}

\* ProjectService.update_project, lines 81 to 82: setattr for every item
update_project(project, update_data) ==
    [f \in DOMAIN project |->
        IF f \in DOMAIN update_data THEN update_data[f] ELSE project[f]]

\* every row the table can hold, and every content of the table
Rows == EndpointProjects
            \cup {update_project(p, u) : p \in EndpointProjects, u \in Updates}
RowLists(n) ==
    UNION {{ps \in [1..m -> Rows] :
                \A i, j \in 1..m : ps[i].id = ps[j].id => i = j} : m \in 0..n}

\* tfidf_matcher.match_projects(projects, job_context, max_results) for
\* every content of the table, computed once
MatchTable ==
    Table([ps \in RowLists(MaxProjects) |->
        Table([n \in 1..MaxResults |->
            match_projects(None, ps, EndpointJob, n, ProcessSeed)])])

\* the MatchResult objects of a call: each result with its project row
MatchResults(results, projects) ==
    [i \in 1..Len(results) |->
        [results[i] EXCEPT !.project =
            CHOOSE p \in Range(projects) : p.id = results[i].project]]

\* the fields of a ProjectMatchResponse the claims are about
Matched(id, score) == [project_id |-> id, confidence_score |-> score]

Reply(status, cache_hit, matched_projects, total, computed) ==
    Some([status |-> status, cache_hit |-> cache_hit,
          matched_projects |-> matched_projects,
          total_projects_analyzed |-> total,
          computed |-> computed])

\* match_projects_to_job, lines 105 to 134: the response made of a cached list
cached_response(cached_results, max_results) ==
    Reply(200, TRUE,
          [i \in 1..Len(slice(cached_results, max_results)) |->
              Matched(cached_results[i].project_id,
                      cached_results[i].confidence_score)],
          Len(cached_results), FALSE)

\* match_projects_to_job, lines 154 to 193, without the call of cache_results
compute_without_store(mem, cache_key, projects, out, force_refresh, t) ==
    IF out.raised
    THEN [reply |-> Reply(500, FALSE, <<>>, 0, TRUE), memory |-> mem,
          vectorizer |-> out.vectorizer]
    ELSE [reply |->
              Reply(200, FALSE,
                    [i \in 1..Len(out.results) |->
                        Matched(out.results[i].project,
                                out.results[i].confidence_score)],
                    Len(projects), TRUE),
          memory |-> mem,
          vectorizer |-> out.vectorizer]

\* match_projects_to_job, lines 154 to 193: out is what match_projects
\* returned or raised; an exception becomes the status 500 at line 201
compute_and_store(mem, cache_key, projects, out, force_refresh, t) ==
    IF out.raised
    THEN [reply |-> Reply(500, FALSE, <<>>, 0, TRUE), memory |-> mem,
          vectorizer |-> out.vectorizer]
    ELSE [reply |->
              Reply(200, FALSE,
                    [i \in 1..Len(out.results) |->
                        Matched(out.results[i].project,
                                out.results[i].confidence_score)],
                    Len(projects), TRUE),
          memory |->
              IF force_refresh THEN mem
              ELSE cache_results(None, <<>>, mem, cache_key,
                                 MatchResults(out.results, projects), None, t,
                                 "none").memory,
          vectorizer |-> out.vectorizer]

\* match_projects_to_job, lines 91 to 193, after the look-up of the cache:
\* got is what get_cached_results returned and left in the memory cache
respond(got, self_vectorizer, projects, cache_key, max_results, force_refresh, t) ==
    IF got.out.kind = "list" /\ got.out.val # <<>>
    THEN [reply |-> cached_response(got.out.val, max_results),
          memory |-> got.memory, vectorizer |-> self_vectorizer]
    ELSE IF projects = <<>>
    THEN [reply |-> Reply(200, FALSE, <<>>, 0, FALSE),
          memory |-> got.memory, vectorizer |-> self_vectorizer]
    ELSE compute_and_store(got.memory, cache_key, projects,
                           MatchTable[projects][max_results],
                           force_refresh, t)

\* match_projects_to_job: [reply, memory, vectorizer]
match_projects_to_job(mem, self_vectorizer, projects, user_id, max_results, force_refresh, t) ==
    respond(IF force_refresh
            THEN [out |-> Return("None", <<>>), memory |-> mem]
            ELSE get_cached_results(None, <<>>, mem, KeyOf(user_id), t, "none"),
            self_vectorizer, projects, KeyOf(user_id), max_results,
            force_refresh, t)

\* the history of the stored entry: the rows it was computed from
Computed(pl, key, reply, force_refresh, projects, max_results, t) ==
    IF reply[1].computed /\ reply[1].status = 200 /\ ~force_refresh
    THEN Store(pl, key, [ttl |-> None, at |-> t, projects |-> projects,
                         max_results |-> max_results])
    ELSE pl

InitEndpoint ==
    /\ redis_client = init(TRUE, None, FALSE, FALSE)
    /\ redis_store = <<>>
    /\ memory_cache = <<>>
    /\ now = 0
    /\ put_log = <<>>
    /\ last = NoOp
    /\ key_call = NoKeyCall
    /\ vectorizer = None
    /\ match_call = NoMatchCall
    /\ db_projects = <<>>
    /\ response = NoResponse
    /\ thread = NoThreads
    /\ inserted = <<>>

\* GET /match/{job_id}?user_id=&max_results=&force_refresh=
MatchRequest(max_results, force_refresh) ==
    /\ \E r \in {match_projects_to_job(memory_cache, vectorizer, db_projects,
                                       EndpointUser, max_results,
                                       force_refresh, now)} :
          /\ memory_cache' = r.memory
          /\ vectorizer' = r.vectorizer
          /\ put_log' = PutLog(Computed(put_log, KeyOf(EndpointUser), r.reply,
                                        force_refresh, db_projects,
                                        max_results, now),
                               <<>>, r.memory)
          /\ response' =
                [request |-> Some([max_results |-> max_results,
                                   force_refresh |-> force_refresh,
                                   at |-> now]),
                 reply |-> r.reply,
                 source |-> IF r.reply[1].cache_hit
                            THEN put_log[KeyOf(EndpointUser)].projects
                            ELSE db_projects,
                 invalidated |-> FALSE]
    /\ UNCHANGED <<thread, inserted, redis_client, redis_store, now, last, key_call, match_call,
                   db_projects>>

\* POST /projects: the new row comes last
CreateProject(project) ==
    /\ Len(db_projects) < MaxProjects
    /\ \A i \in 1..Len(db_projects) : db_projects[i].id # project.id
    /\ db_projects' = Append(db_projects, project)
    /\ UNCHANGED <<thread, inserted, redis_client, redis_store, memory_cache, now, put_log, last,
                   key_call, vectorizer, match_call, response>>

\* PUT /projects/{project_id}
UpdateProject(i, update_data) ==
    /\ i \in 1..Len(db_projects)
    /\ db_projects' =
          [db_projects EXCEPT ![i] = update_project(db_projects[i], update_data)]
    /\ UNCHANGED <<thread, inserted, redis_client, redis_store, memory_cache, now, put_log, last,
                   key_call, vectorizer, match_call, response>>

\* DELETE /projects/{project_id}
DeleteProject(i) ==
    /\ i \in 1..Len(db_projects)
    /\ db_projects' = [j \in 1..(Len(db_projects) - 1) |->
                          IF j < i THEN db_projects[j] ELSE db_projects[j + 1]]
    /\ UNCHANGED <<thread, inserted, redis_client, redis_store, memory_cache, now, put_log, last,
                   key_call, vectorizer, match_call, response>>

\* DELETE /cache/{user_id}?confirm=true
ClearUserCache ==
    /\ \E r \in {invalidate_user_cache(redis_client, redis_store, memory_cache,
                                       EndpointUser, "none")} :
          /\ memory_cache' = r.memory
          /\ put_log' = PutLog(put_log, <<>>, r.memory)
    /\ response' = [response EXCEPT !.invalidated = TRUE]
    /\ UNCHANGED <<thread, inserted, redis_client, redis_store, now, last, key_call, vectorizer,
                   match_call, db_projects>>

\* a second passes, or the default TTL of an entry
Elapse(seconds) ==
    /\ (now \div default_ttl) + (now % default_ttl) < MaxTime
    /\ now' = now + seconds
    /\ UNCHANGED <<thread, inserted, redis_client, redis_store, memory_cache, put_log, last,
                   key_call, vectorizer, match_call, db_projects, response>>

NextEndpoint ==
    \/ \E n \in {1, MaxResults}, force_refresh \in BOOLEAN :
          MatchRequest(n, force_refresh)
    \/ \E p \in EndpointProjects : CreateProject(p)
    \/ \E i \in 1..MaxProjects, u \in Updates : UpdateProject(i, u)
    \/ \E i \in 1..MaxProjects : DeleteProject(i)
    \/ ClearUserCache
    \/ \E seconds \in {1, default_ttl} : Elapse(seconds)

SpecEndpoint == InitEndpoint /\ [][NextEndpoint]_vars

----------------------------------------------------------------------------
(* Properties of the match endpoint *)

\* the last request missed the cache, computed results and returned them
MissedAndComputed ==
    /\ ~IsNone(response.reply)
    /\ ~response.request[1].force_refresh
    /\ response.reply[1].status = 200
    /\ ~response.reply[1].cache_hit
    /\ response.reply[1].computed

\* C23: when the last request missed the cache and computed results, the
\* next request without force_refresh, made before the TTL has elapsed and
\* with no invalidation in between, is a cache hit served without a call of
\* the matcher, and it carries the project ids and confidence scores of the
\* computed results in their order: all of them for the same max_results,
\* the first max_results of them otherwise.
C23_HitAfterMiss ==
    [][MissedAndComputed =>
          \A n \in {1, MaxResults} :
              (/\ MatchRequest(n, FALSE)
               /\ ~response.invalidated
               /\ now < response.request[1].at + default_ttl)
              => (/\ response'.reply[1].status = 200
                  /\ response'.reply[1].cache_hit
                  /\ ~response'.reply[1].computed
                  /\ vectorizer' = vectorizer
                  /\ response'.reply[1].matched_projects
                        = slice(response.reply[1].matched_projects, n)
                  /\ n = response.request[1].max_results
                        => response'.reply[1].matched_projects
                              = response.reply[1].matched_projects)]_vars

\* a request made one second after the entry was stored has been served
\* from the cache with two projects, in descending order of their scores
C23_Witness ==
    /\ ~IsNone(response.reply)
    /\ response.reply[1].cache_hit
    /\ response.request[1].at = 1
    /\ KeyOf(EndpointUser) \in DOMAIN put_log
    /\ put_log[KeyOf(EndpointUser)].at = 0
    /\ Len(response.reply[1].matched_projects) = 2
    /\ response.reply[1].matched_projects[1].confidence_score
          > response.reply[1].matched_projects[2].confidence_score
    /\ response.source = db_projects


\* the response a request would get in the current state
Following(max_results, force_refresh) ==
    match_projects_to_job(memory_cache, vectorizer, db_projects, EndpointUser,
                          max_results, force_refresh, now).reply[1]

\* C24 as stated: a request with force_refresh on a user with projects
\* ignores the cached entry and recomputes; afterwards the entry of its key
\* holds the computed results, and a following request without force_refresh
\* is a cache hit that returns them.
C24_ForceRefreshStores ==
    [][\A n \in {1, MaxResults} :
          (MatchRequest(n, TRUE) /\ db_projects # <<>>
              /\ response'.reply[1].status = 200)
          => (/\ ~response'.reply[1].cache_hit
              /\ response'.reply[1].computed
              /\ KeyOf(EndpointUser) \in DOMAIN memory_cache'
              /\ Following(n, FALSE)'.cache_hit
              /\ Following(n, FALSE)'.matched_projects
                    = response'.reply[1].matched_projects)]_vars


\* what the matcher returns for the rows of the table now
Fresh(max_results) == MatchTable[db_projects][max_results]

\* C28 as stated: a response served from the cache for max_results = n has
\* min(n, number of projects of the user) matched projects, the projects a
\* computation with n on the rows of the table would return, in its order.
C28_HitTransparent ==
    [][\A n \in {1, MaxResults} :
          (MatchRequest(n, FALSE) /\ response'.reply[1].cache_hit)
          => (/\ Len(response'.reply[1].matched_projects)
                    = Min(n, Len(db_projects))
              /\ ~Fresh(n).raised
              /\ Len(Fresh(n).results) = Len(response'.reply[1].matched_projects)
              /\ \A i \in 1..Len(Fresh(n).results) :
                    response'.reply[1].matched_projects[i].project_id
                        = Fresh(n).results[i].project)]_vars


\* C29: cached results never outlive the project set they were computed from:
\* every match request of the user answers from the rows the table holds at the
\* time of the request, never from the rows of before a create, update or
\* delete.
C29_NoStaleResults ==
    [][\A n \in 1..MaxResults : \A f \in BOOLEAN :
          MatchRequest(n, f) => response'.source = db_projects]_vars


----------------------------------------------------------------------------
(* Threads on one cache instance, Redis not configured. The methods take no
   lock: a thread can be switched between any two accesses of
   self.memory_cache, so each access is an action of its own. *)

ThreadKeys == {KeyOf(u) : u \in UserIds}
ThreadTtls == {Some(1)}
ThreadResults == <<ResultA, ResultB>>

\* the variables no cache method touches when Redis is not configured
outside_threads ==
    <<redis_client, redis_store, put_log, key_call, vectorizer, match_call,
      db_projects, response>>

InitThreads ==
    /\ redis_client = init(FALSE, None, FALSE, FALSE)
    /\ redis_store = <<>>
    /\ memory_cache = <<>>
    /\ now = 0
    /\ put_log = <<>>
    /\ last = NoOp
    /\ key_call = NoKeyCall
    /\ vectorizer = None
    /\ match_call = NoMatchCall
    /\ db_projects = <<>>
    /\ response = NoResponse
    /\ thread = NoThreads
    /\ inserted = <<>>

\* del self.memory_cache[key], in the insertion order
Without(order, key) ==
    LET Other(k) == k # key IN SelectSeq(order, Other)

\* history: thread s deletes the entry of key on an expiry path; the threads
\* in cache_results whose stored entry it is, not yet expired, lose it
Evicted(th, mem, s, key, t_now) ==
    [t \in Threads |->
        IF /\ t # s
           /\ th[t].op = "put"
           /\ th[t].arg = key
           /\ mem[key].expires_at = th[t].expires_at
           /\ t_now < mem[key].expires_at
        THEN [th[t] EXCEPT !.evicted = TRUE]
        ELSE th[t]]

\* history: an entry stored anew is not one that existed when an
\* invalidate_user_cache under way started
Restored(th, key) ==
    [t \in Threads |-> [th[t] EXCEPT !.started = @ \ {key}]]

\* get_cached_results: `cache_key in self.memory_cache`
GetContains(t, cache_key) ==
    /\ thread[t].pc = "idle"
    /\ IF cache_key \in DOMAIN memory_cache
       THEN /\ thread' = [thread EXCEPT
                             ![t] = [Idle EXCEPT !.pc = "get_read",
                                                 !.op = "get",
                                                 !.arg = cache_key]]
            /\ UNCHANGED last
       ELSE /\ last' = Did("get", Return("None", <<>>))
            /\ UNCHANGED thread
    /\ UNCHANGED <<inserted, memory_cache, now, outside_threads>>

\* get_cached_results: `self.memory_cache[cache_key]` and the test of expires_at;
\* a KeyError is caught by the except clause, which returns None
GetRead(t) ==
    /\ thread[t].pc = "get_read"
    /\ IF thread[t].arg \notin DOMAIN memory_cache
       THEN /\ thread' = [thread EXCEPT ![t] = Idle]
            /\ last' = Did("get", Return("None", <<>>))
       ELSE IF now < memory_cache[thread[t].arg].expires_at
       THEN /\ thread' = [thread EXCEPT ![t] = Idle]
            /\ last' = Did("get", Return("list",
                                         memory_cache[thread[t].arg].data))
       ELSE /\ thread' = [thread EXCEPT ![t].pc = "get_del"]
            /\ UNCHANGED last
    /\ UNCHANGED <<inserted, memory_cache, now, outside_threads>>

\* get_cached_results: `del self.memory_cache[cache_key]`, then return None
GetDel(t) ==
    /\ thread[t].pc = "get_del"
    /\ IF thread[t].arg \notin DOMAIN memory_cache
       THEN /\ thread' = [thread EXCEPT ![t] = Idle]
            /\ UNCHANGED <<memory_cache, inserted>>
       ELSE /\ memory_cache' = Remove(memory_cache, {thread[t].arg})
            /\ inserted' = Without(inserted, thread[t].arg)
            /\ thread' = [Evicted(thread, memory_cache, t, thread[t].arg, now)
                             EXCEPT ![t] = Idle]
    /\ last' = Did("get", Return("None", <<>>))
    /\ UNCHANGED <<now, outside_threads>>

\* cache_results: `self.memory_cache[cache_key] = {...}`
PutStore(t, cache_key, ttl) ==
    /\ thread[t].pc = "idle"
    /\ \E eff \in {IF IsNone(ttl) \/ ttl[1] = 0 THEN default_ttl ELSE ttl[1]} :
          /\ memory_cache' =
                Store(memory_cache, cache_key,
                      [data |-> serializable_results(ThreadResults, now),
                       expires_at |-> now + eff])
          /\ thread' = [Restored(thread, cache_key) EXCEPT
                           ![t] = [Idle EXCEPT !.pc = "sweep_iter",
                                               !.op = "put",
                                               !.arg = cache_key,
                                               !.expires_at = now + eff]]
    /\ inserted' = IF cache_key \in Range(inserted) THEN inserted
                   ELSE Append(inserted, cache_key)
    /\ UNCHANGED <<last, now, outside_threads>>

\* _cleanup_memory_cache: datetime.now() and the iterator of
\* self.memory_cache.items(), which remembers the size of the dict
SweepIter(t) ==
    /\ thread[t].pc = "sweep_iter"
    /\ thread' = [thread EXCEPT ![t].pc = "sweep_collect",
                                ![t].read_now = now,
                                ![t].used = Cardinality(DOMAIN memory_cache)]
    /\ UNCHANGED <<inserted, memory_cache, last, now, outside_threads>>

\* _cleanup_memory_cache: the list comprehension; the iterator raises
\* RuntimeError when the dict has changed size, and cache_results returns False
SweepCollect(t) ==
    /\ thread[t].pc = "sweep_collect"
    /\ IF Cardinality(DOMAIN memory_cache) # thread[t].used
       THEN /\ thread' = [thread EXCEPT ![t] = Idle]
            /\ last' = Did("put", Return("bool", FALSE))
       ELSE LET Expired(key) ==
                    thread[t].read_now >= memory_cache[key].expires_at
            IN  IF SelectSeq(inserted, Expired) = <<>>
                THEN /\ thread' = [thread EXCEPT ![t] = Idle]
                     /\ last' = Did("put", Return("bool", TRUE))
                ELSE /\ thread' = [thread EXCEPT
                                      ![t].pc = "sweep_del",
                                      ![t].keys = SelectSeq(inserted, Expired)]
                     /\ UNCHANGED last
    /\ UNCHANGED <<inserted, memory_cache, now, outside_threads>>

\* _cleanup_memory_cache: `del self.memory_cache[key]` for the next expired
\* key; after the last one cache_results returns True
SweepDel(t) ==
    /\ thread[t].pc = "sweep_del"
    /\ IF Head(thread[t].keys) \notin DOMAIN memory_cache
       THEN /\ thread' = [thread EXCEPT ![t] = Idle]
            /\ last' = Did("put", Return("bool", FALSE))
            /\ UNCHANGED <<memory_cache, inserted>>
       ELSE /\ memory_cache' = Remove(memory_cache, {Head(thread[t].keys)})
            /\ inserted' = Without(inserted, Head(thread[t].keys))
            /\ IF Tail(thread[t].keys) = <<>>
               THEN /\ thread' = [Evicted(thread, memory_cache, t,
                                          Head(thread[t].keys), now)
                                     EXCEPT ![t] = Idle]
                    /\ last' = Did("put", Return("bool", TRUE))
               ELSE /\ thread' = [Evicted(thread, memory_cache, t,
                                          Head(thread[t].keys), now)
                                     EXCEPT ![t].keys = Tail(@)]
                    /\ UNCHANGED last
    /\ UNCHANGED <<now, outside_threads>>

\* invalidate_user_cache: the iterator of self.memory_cache.keys()
InvalidateIter(t, user_id) ==
    /\ thread[t].pc = "idle"
    /\ thread' = [thread EXCEPT
                     ![t] = [Idle EXCEPT
                                !.pc = "invalidate_collect",
                                !.op = "invalidate",
                                !.arg = user_id,
                                !.used = Cardinality(DOMAIN memory_cache),
                                !.started =
                                    {key \in DOMAIN memory_cache :
                                        startswith(key, UserPrefix(user_id))}]]
    /\ UNCHANGED <<inserted, memory_cache, last, now, outside_threads>>

\* invalidate_user_cache: the list comprehension; RuntimeError when the dict
\* has changed size, and the except clause returns 0
InvalidateCollect(t) ==
    /\ thread[t].pc = "invalidate_collect"
    /\ IF Cardinality(DOMAIN memory_cache) # thread[t].used
       THEN /\ thread' = [thread EXCEPT ![t] = Idle]
            /\ last' = Did("invalidate", Return("int", 0))
       ELSE LET OfUser(key) == startswith(key, UserPrefix(thread[t].arg))
            IN  IF SelectSeq(inserted, OfUser) = <<>>
                THEN /\ thread' = [thread EXCEPT ![t] = Idle]
                     /\ last' = Did("invalidate", Return("int", 0))
                ELSE /\ thread' = [thread EXCEPT
                                      ![t].pc = "invalidate_del",
                                      ![t].keys = SelectSeq(inserted, OfUser)]
                     /\ UNCHANGED last
    /\ UNCHANGED <<inserted, memory_cache, now, outside_threads>>

\* invalidate_user_cache: `del self.memory_cache[key]` for the next key; a
\* KeyError ends the loop and the except clause returns 0
InvalidateDel(t) ==
    /\ thread[t].pc = "invalidate_del"
    /\ IF Head(thread[t].keys) \notin DOMAIN memory_cache
       THEN /\ thread' = [thread EXCEPT ![t] = Idle]
            /\ last' = Did("invalidate", Return("int", 0))
            /\ UNCHANGED <<memory_cache, inserted>>
       ELSE /\ memory_cache' = Remove(memory_cache, {Head(thread[t].keys)})
            /\ inserted' = Without(inserted, Head(thread[t].keys))
            /\ IF Tail(thread[t].keys) = <<>>
               THEN /\ thread' = [thread EXCEPT ![t] = Idle]
                    /\ last' = Did("invalidate",
                                   Return("int", thread[t].count + 1))
               ELSE /\ thread' = [thread EXCEPT ![t].keys = Tail(@),
                                                ![t].count = @ + 1]
                    /\ UNCHANGED last
    /\ UNCHANGED <<now, outside_threads>>

NextThreads ==
    \/ \E t \in Threads, cache_key \in ThreadKeys : GetContains(t, cache_key)
    \/ \E t \in Threads : GetRead(t)
    \/ \E t \in Threads : GetDel(t)
    \/ \E t \in Threads, cache_key \in ThreadKeys, ttl \in ThreadTtls :
          PutStore(t, cache_key, ttl)
    \/ \E t \in Threads : SweepIter(t)
    \/ \E t \in Threads : SweepCollect(t)
    \/ \E t \in Threads : SweepDel(t)
    \/ \E t \in Threads, user_id \in UserIds : InvalidateIter(t, user_id)
    \/ \E t \in Threads : InvalidateCollect(t)
    \/ \E t \in Threads : InvalidateDel(t)
    \/ Elapse(1)

SpecThreads == InitThreads /\ [][NextThreads]_vars

----------------------------------------------------------------------------
(* Properties of the cache under threads *)

\* thread t returns from the cache method it is in
Returns(t) == thread[t].pc # "idle" /\ thread'[t].pc = "idle"

\* C25: under concurrent get, put and invalidate each operation takes effect
\* as if atomic: no put reports success after another thread's expiry eviction
\* has removed its entry before the expiry, and when invalidate_user_cache(u)
\* returns, no entry of u that existed when it started is left in the
\* fallback store.
C25_AtomicOperations ==
    [][\A t \in Threads :
          Returns(t)
          => /\ (thread[t].op = "put" /\ last'.val = TRUE)
                => ~thread[t].evicted
             /\ thread[t].op = "invalidate"
                => thread[t].started \cap DOMAIN memory_cache' = {}]_vars

====
